---- MODULE Spec2Model ----
(***************************************************************************)
(* Nested workflow variables: definition trees, their serializer, the      *)
(* value validator, the variable pool with dot-path access, the template   *)
(* parser, and the response enhancement pipeline.                          *)
(*                                                                         *)
(* Among the specifications that share the module:                         *)
(*   SpecSer   definitions are constructed, serialized and deserialized    *)
(*   SpecVal   validate_value applied to (definition, value) inputs        *)
(*   SpecPool  the variable pool: add, get, get_nested, set_nested         *)
(*   SpecAdd   add_nested_variable applied to (definition, value) inputs   *)
(*   SpecTpl   template selector extraction and formatting                 *)
(*   SpecWire  raw maps given to the deserializer and its pre-check        *)
(*   SpecDef   validate_definition on constructed trees                    *)
(*   SpecDup   validate_definition on trees whose fields were assigned     *)
(*   SpecDepth the recursion depth of the two validations                  *)
(*   SpecGraph the front-end conversion and the graph validation           *)
(*   SpecRead, SpecFrame  the pool under reads and under set_nested        *)
(*   SpecPipe  the response enhancement pipeline and its circuit breaker   *)
(*                                                                         *)
(* Text is modelled two ways.  A string whose characters are inspected     *)
(* (names, dot paths, templates) is a sequence of one-character strings;   *)
(* a string that is only built and compared (error paths) is a TLA+ string.*)
(***************************************************************************)
EXTENDS Integers, Sequences, FiniteSets, TLC

VARIABLES
    def,        \* SpecSer: the definition under construction, <<>> or <<d>>
    wire,       \* SpecSer: the serialized map of def, <<>> or <<m>>
    back,       \* SpecSer: the result of deserializing wire, <<>> or <<r>>
    rejected,   \* SpecSer: TRUE when the last constructor call raised
    vdef,       \* SpecVal: the definition a value is validated against
    value,      \* SpecVal: the runtime value
    errors,     \* SpecVal: the list validate_value returned, <<>> or <<list>>
    heap,       \* pool: the dict objects in memory, object id -> key -> cell
    variable_dictionary,  \* pool: scope -> name -> segment
    gen,        \* pool: number of successful writes, numbers the objects
    held,       \* pool: what a caller took from the pool earlier, <<>> or <<h>>
    last,       \* pool: the last call, its arguments and its result
    template,   \* SpecTpl: the template of the parser, <<>> or <<chars>>
    extracted,  \* SpecTpl: what extract_nested_selectors returned, <<>> or <<list>>
    formatted,  \* SpecTpl: what format_with_nested_variables returned, <<>> or <<r>>
    error_counts,         \* error handler: processor name -> number of errors
    disabled_processors,  \* error handler: the names the circuit breaker disabled
    frame,      \* execute_pipeline in progress: its list, position and response
    returned,   \* what the last execute_pipeline returned, <<>> or <<response>>
    calls,      \* what the current or last execution did at each position
    raised_in,  \* processor name -> executions it raised in since it was enabled
    reenabled   \* the names that were disabled and then enabled again

vars == <<def, wire, back, rejected, vdef, value, errors,
          heap, variable_dictionary, gen, held, last,
          template, extracted, formatted,
          error_counts, disabled_processors, frame, returned, calls, raised_in,
          reenabled>>

serVars == <<def, wire, back, rejected>>
valVars == <<vdef, value, errors>>
poolVars == <<heap, variable_dictionary, gen, held, last>>
tplVars == <<template, extracted, formatted>>
pipeVars == <<error_counts, disabled_processors, frame, returned, calls, raised_in,
              reenabled>>

-----------------------------------------------------------------------------
(* Text helpers *)

RECURSIVE Str(_)
\* The TLA+ string spelled by a sequence of one-character strings.
Str(cs) == IF cs = <<>> THEN "" ELSE Head(cs) \o Str(Tail(cs))

Letters == {"a", "b", "c", "d", "n", "u", "z"}
Digits == {"1"}
Underscore == {"_"}

-----------------------------------------------------------------------------
(* Runtime values.  t is type(value).__name__; v spells a scalar; items are *)
(* the elements of a list; fields maps the keys of a dict to their values. *)

NoFields == [k \in {} |-> 0]
Scalar(t, v) == [t |-> t, v |-> v, items |-> <<>>, fields |-> NoFields]
None == Scalar("NoneType", "None")
ListOf(xs) == [t |-> "list", v |-> "", items |-> xs, fields |-> NoFields]
DictOf(f) == [t |-> "dict", v |-> "", items |-> <<>>, fields |-> f]

\* isinstance(value, cls) for the classes the validators test; bool is a
\* subclass of int.
isinstance(val, cls) ==
    CASE cls = "str" -> val.t = "str"
      [] cls = "int" -> val.t \in {"int", "bool"}
      [] cls = "int_or_float" -> val.t \in {"int", "bool", "float"}
      [] cls = "bool" -> val.t = "bool"
      [] cls = "dict" -> val.t = "dict"
      [] cls = "list" -> val.t = "list"

\* A lookup that answers an absent key with an empty string.
DictGet_absent_is_empty(val, key) ==
    IF key \in DOMAIN val.fields THEN val.fields[key] ELSE Scalar("str", "")

\* dict.get(key): None when the key is absent.
DictGet(val, key) == IF key \in DOMAIN val.fields THEN val.fields[key] ELSE None

-----------------------------------------------------------------------------
(* The parts of the state a specification does not use stay as they are    *)
(* here.                                                                   *)

\* An optional dot path argument: None, or the characters of the string.
NoPath == [none |-> TRUE, s |-> <<>>]
PathStr(cs) == [none |-> FALSE, s |-> cs]

NoCall == [op |-> "none", sel |-> <<>>, path |-> NoPath, val |-> None,
           ret |-> FALSE, out |-> <<>>]

\* The reserved scope of the system variables.
SYSTEM_VARIABLE_NODE_ID == <<"s", "y", "s">>

SerIdle == def = <<>> /\ wire = <<>> /\ back = <<>> /\ rejected = FALSE

ValIdle == vdef = <<>> /\ value = <<>> /\ errors = <<>>

\* VariablePool.empty(): no object in memory, only the system scope.
PoolIdle ==
    /\ heap = [id \in {} |-> 0]
    /\ variable_dictionary = [sc \in {SYSTEM_VARIABLE_NODE_ID} |-> [n \in {} |-> 0]]
    /\ gen = 0
    /\ held = <<>>
    /\ last = NoCall

TplIdle == template = <<>> /\ extracted = <<>> /\ formatted = <<>>

\* EnhancementErrorHandler(): no error counted, nothing disabled, and no
\* pipeline running.
PipeIdle ==
    /\ error_counts = [n \in {} |-> 0]
    /\ disabled_processors = {}
    /\ frame = <<>>
    /\ returned = <<>>
    /\ calls = <<>>
    /\ raised_in = [n \in {} |-> 0]
    /\ reenabled = {}

-----------------------------------------------------------------------------
(* Variable type vocabulary (entities/nested_variable.py) *)

MAX_NESTING_DEPTH == 5

\* Members of the NestedVariableType enumeration.
NestedVariableType ==
    {"STRING", "INTEGER", "NUMBER", "BOOLEAN", "OBJECT", "FILE",
     "ARRAY_STRING", "ARRAY_INTEGER", "ARRAY_NUMBER", "ARRAY_OBJECT",
     "ARRAY_BOOLEAN", "ARRAY_FILE"}

\* member.value: the tag string of an enumeration member.
TypeValue(t) ==
    CASE t = "STRING" -> "string"
      [] t = "INTEGER" -> "integer"
      [] t = "NUMBER" -> "number"
      [] t = "BOOLEAN" -> "boolean"
      [] t = "OBJECT" -> "object"
      [] t = "FILE" -> "file"
      [] t = "ARRAY_STRING" -> "array[string]"
      [] t = "ARRAY_INTEGER" -> "array[integer]"
      [] t = "ARRAY_NUMBER" -> "array[number]"
      [] t = "ARRAY_OBJECT" -> "array[object]"
      [] t = "ARRAY_BOOLEAN" -> "array[boolean]"
      [] t = "ARRAY_FILE" -> "array[file]"

\* A lookup that takes an unknown tag for the string type.
TypeFromValue_lenient(tag) ==
    IF \E t \in NestedVariableType : TypeValue(t) = tag
    THEN [ok |-> TRUE, type |-> CHOOSE t \in NestedVariableType : TypeValue(t) = tag]
    ELSE [ok |-> TRUE, type |-> "STRING"]

\* NestedVariableType(tag): lookup by value; ok is FALSE where Python raises
\* ValueError.
TypeFromValue(tag) ==
    IF \E t \in NestedVariableType : TypeValue(t) = tag
    THEN [ok |-> TRUE, type |-> CHOOSE t \in NestedVariableType : TypeValue(t) = tag]
    ELSE [ok |-> FALSE, type |-> "STRING"]

is_nestable(t) == t \in {"OBJECT", "ARRAY_OBJECT"}

is_array(t) ==
    t \in {"ARRAY_STRING", "ARRAY_INTEGER", "ARRAY_NUMBER", "ARRAY_OBJECT",
           "ARRAY_BOOLEAN", "ARRAY_FILE"}

-----------------------------------------------------------------------------
(* NestedVariableDefinition (entities/nested_variable.py) *)

\* The children field: None, or a sequence of definitions.
NoChildren == [isNone |-> TRUE, items |-> <<>>]
ChildList(cs) == [isNone |-> FALSE, items |-> cs]

\* Python truthiness of the children field: neither None nor empty.
HasChildren(d) == ~d.children.isNone /\ Len(d.children.items) > 0

\* VARIABLE_NAME_PATTERN.match(v): ^[a-zA-Z][a-zA-Z0-9_]*$ where, as re
\* defines it, $ also matches just before a newline that ends the string.
validate_name(v) ==
    LET body == IF Len(v) >= 2 /\ v[Len(v)] = "\n"
                THEN SubSeq(v, 1, Len(v) - 1) ELSE v
    IN /\ Len(body) >= 1
       /\ body[1] \in Letters
       /\ \A i \in 2..Len(body) : body[i] \in Letters \cup Digits \cup Underscore

\* A model validator that does not compare sibling names.
validate_children_for_type_nestable_only(type, children) ==
    IF ~children.isNone /\ Len(children.items) > 0
    THEN is_nestable(type)
    ELSE TRUE

\* The model validator run after field validation: children only under a
\* nestable type, and sibling names unique.
validate_children_for_type(type, children) ==
    IF ~children.isNone /\ Len(children.items) > 0
    THEN /\ is_nestable(type)
         /\ \A i, j \in 1..Len(children.items) :
                i # j => children.items[i].name # children.items[j].name
    ELSE TRUE

\* The constructor: ok is FALSE where pydantic raises a validation error.
NewDefinition(name, type, required, description, default_value, children) ==
    [ok |-> validate_name(name) /\ validate_children_for_type(type, children),
     def |-> [name |-> name, type |-> type, required |-> required,
              description |-> description, default_value |-> default_value,
              children |-> children]]

RECURSIVE get_max_depth(_)
get_max_depth(d) ==
    IF ~HasChildren(d) THEN 1
    ELSE LET depths == {get_max_depth(d.children.items[i]) : i \in 1..Len(d.children.items)}
         IN 1 + CHOOSE m \in depths : \A x \in depths : x <= m

\* validate_depth reporting a tree of exactly max_depth levels as well.
validate_depth_inclusive(d, max_depth) ==
    IF get_max_depth(d) >= max_depth
    THEN <<"Maximum nesting depth of " \o ToString(max_depth) \o " exceeded at '"
           \o Str(d.name) \o "' (depth: " \o ToString(get_max_depth(d)) \o ")">>
    ELSE <<>>

\* validate_depth(max_depth): the list of messages, empty when the deepest
\* chain of the tree has at most max_depth levels.
validate_depth(d, max_depth) ==
    IF get_max_depth(d) > max_depth
    THEN <<"Maximum nesting depth of " \o ToString(max_depth) \o " exceeded at '"
           \o Str(d.name) \o "' (depth: " \o ToString(get_max_depth(d)) \o ")">>
    ELSE <<>>

-----------------------------------------------------------------------------
(* NestedVariableSerializer (serializers/nested_variable_serializer.py) *)

\* A list as it appears in a wire map.
WireList(ms) == [kind |-> "list", items |-> ms]

\* A value found under "children" that is not a list: None or a dict,
\* with the entries that decide its truthiness.
WireOther(kind, items) == [kind |-> kind, items |-> items]

RECURSIVE serialize_definition_truthy_default(_)
\* serialize_definition testing the default value for truthiness instead of
\* "is not None".
serialize_definition_truthy_default(d) ==
    LET keys == {"name", "type", "required", "description"}
                \cup (IF d.default_value \notin {"None", "zero"} THEN {"default_value"} ELSE {})
                \cup (IF HasChildren(d) THEN {"children"} ELSE {})
    IN [k \in keys |->
           CASE k = "name" -> d.name
             [] k = "type" -> TypeValue(d.type)
             [] k = "required" -> d.required
             [] k = "description" -> d.description
             [] k = "default_value" -> d.default_value
             [] k = "children" ->
                  WireList([i \in 1..Len(d.children.items) |->
                               serialize_definition_truthy_default(d.children.items[i])])]

RECURSIVE serialize_definition(_)
\* The wire map of a definition: a function over the keys it emits.
serialize_definition(d) ==
    LET keys == {"name", "type", "required", "description"}
                \cup (IF d.default_value # "None" THEN {"default_value"} ELSE {})
                \cup (IF HasChildren(d) THEN {"children"} ELSE {})
    IN [k \in keys |->
           CASE k = "name" -> d.name
             [] k = "type" -> TypeValue(d.type)
             [] k = "required" -> d.required
             [] k = "description" -> d.description
             [] k = "default_value" -> d.default_value
             [] k = "children" ->
                  WireList([i \in 1..Len(d.children.items) |->
                               serialize_definition(d.children.items[i])])]

\* The value carried by a failed deserialization.
NullDefinition ==
    [name |-> <<>>, type |-> "STRING", required |-> FALSE, description |-> "",
     default_value |-> "None", children |-> NoChildren]

DeserializationError(msg) == [ok |-> FALSE, def |-> NullDefinition, err |-> msg]

RECURSIVE deserialize_definition(_)
\* ok is FALSE where the code raises NestedVariableDeserializationError.
deserialize_definition(data) ==
    IF "name" \notin DOMAIN data \/ data["name"] = <<>>
    THEN DeserializationError("Missing required field 'name'")
    ELSE IF "type" \notin DOMAIN data \/ data["type"] = ""
    THEN DeserializationError("Missing required field 'type'")
    ELSE IF ~TypeFromValue(data["type"]).ok
    THEN DeserializationError("Invalid variable type")
    ELSE
      LET var_type == TypeFromValue(data["type"]).type
          \* data.get("children") is truthy: present and not None, an
          \* empty list or an empty dict
          truthy == /\ "children" \in DOMAIN data
                    /\ Len(data["children"].items) > 0
      IN IF truthy /\ data["children"].kind # "list"
         THEN DeserializationError("Field 'children' must be a list")
         ELSE
           LET results == IF truthy
                          THEN [i \in 1..Len(data["children"].items) |->
                                   deserialize_definition(data["children"].items[i])]
                          ELSE <<>>
               failed == {i \in 1..Len(results) : ~results[i].ok}
           IN IF failed # {}
              THEN results[CHOOSE i \in failed : \A j \in failed : i <= j]
              ELSE
                LET children == IF truthy
                                THEN ChildList([i \in 1..Len(results) |-> results[i].def])
                                ELSE NoChildren
                    made == NewDefinition(
                              data["name"], var_type,
                              IF "required" \in DOMAIN data THEN data["required"] ELSE FALSE,
                              IF "description" \in DOMAIN data THEN data["description"] ELSE "",
                              IF "default_value" \in DOMAIN data THEN data["default_value"] ELSE "None",
                              children)
                IN IF made.ok
                   THEN [ok |-> TRUE, def |-> made.def, err |-> ""]
                   ELSE DeserializationError("Failed to deserialize nested variable definition")

-----------------------------------------------------------------------------
(* SpecSer: definitions are built bottom-up through the constructor, then   *)
(* serialized and deserialized.                                            *)

\* Deepest definition tree the constructor is asked to build.
MaxBuildDepth == 3

NameChoices == {<<"a">>, <<"b">>, <<"1", "a">>}

\* Names offered for a definition that has children.
ParentNameChoices == {<<"a">>, <<"1", "a">>}

\* Types offered for a definition that has children: the nestable ones and
\* one that is not.
ParentTypeChoices == {"OBJECT", "ARRAY_OBJECT", "STRING"}

\* (required, description, default_value) combinations offered to the
\* constructor; "zero" is a falsy default that is not None.
Profiles ==
    {[required |-> FALSE, description |-> "", default_value |-> "None"],
     [required |-> TRUE, description |-> "desc", default_value |-> "zero"]}

\* A ready-made leaf used as a second child.
Sibling ==
    [name |-> <<"b">>, type |-> "ARRAY_FILE", required |-> TRUE,
     description |-> "", default_value |-> "abc", children |-> NoChildren]

\* The arguments the caller passes to the constructor: a leaf first, then
\* parents wrapped around the definition built so far.
ConstructorInputs ==
    IF def = <<>>
    THEN [name : NameChoices, type : NestedVariableType, profile : Profiles,
          children : {NoChildren, ChildList(<<>>)}]
    ELSE IF get_max_depth(def[1]) < MaxBuildDepth
    THEN [name : ParentNameChoices, type : ParentTypeChoices, profile : Profiles,
          children : {ChildList(<<def[1]>>), ChildList(<<Sibling, def[1]>>)}]
    ELSE {}

InitSer == SerIdle /\ ValIdle /\ PoolIdle /\ TplIdle /\ PipeIdle

\* NestedVariableDefinition(...) is called; a validation error leaves the
\* caller without a new definition.
Construct ==
    /\ \E inp \in ConstructorInputs :
        LET r == NewDefinition(inp.name, inp.type, inp.profile.required,
                               inp.profile.description,
                               inp.profile.default_value, inp.children)
        IN IF r.ok
           THEN /\ def' = <<r.def>>
                /\ wire' = <<>>
                /\ back' = <<>>
                /\ rejected' = FALSE
           ELSE /\ rejected' = TRUE
                /\ UNCHANGED <<def, wire, back>>
    /\ UNCHANGED <<valVars, poolVars, tplVars>>
    /\ UNCHANGED pipeVars

\* serialize_definition(def) followed by deserialize_definition of the
\* result.
RoundTrip ==
    /\ def # <<>>
    /\ wire' = <<serialize_definition(def[1])>>
    /\ back' = <<deserialize_definition(serialize_definition(def[1]))>>
    /\ rejected' = FALSE
    /\ UNCHANGED def
    /\ UNCHANGED <<valVars, poolVars, tplVars>>
    /\ UNCHANGED pipeVars

NextSer == Construct \/ RoundTrip

SpecSer == InitSer /\ [][NextSer]_vars

RECURSIVE NormalizeChildren(_)
\* d with every empty children list replaced by None.
NormalizeChildren(d) ==
    [d EXCEPT !.children =
        IF HasChildren(d)
        THEN ChildList([i \in 1..Len(d.children.items) |->
                           NormalizeChildren(d.children.items[i])])
        ELSE NoChildren]

\* C1 (as stated): deserialize_definition(serialize_definition(d)) succeeds
\* and is structurally equal to d, children field included.
C1_RoundTripExact ==
    back # <<>> => back[1].ok /\ back[1].def = def[1]

\* C1 (amended): the round trip succeeds and returns d with every empty
\* children list turned into None; every other field, and the order of the
\* children at every level, is preserved.
C1_RoundTripNormalized ==
    back # <<>> => back[1].ok /\ back[1].def = NormalizeChildren(def[1])

\* A round trip of a tree with two ordered children, a falsy default and a
\* nested level has happened.
C1_Witness ==
    /\ back # <<>>
    /\ back[1].ok
    /\ get_max_depth(def[1]) = 3
    /\ Len(def[1].children.items) = 2
    /\ def[1].default_value = "zero"

-----------------------------------------------------------------------------
(* NestedVariableValidator (validators/nested_variable_validator.py) *)

ValidationError(path, message, error_code) ==
    [path |-> path, message |-> message, error_code |-> error_code]

ERROR_REQUIRED_FIELD_MISSING == "REQUIRED_FIELD_MISSING"
ERROR_TYPE_MISMATCH == "TYPE_MISMATCH"
ERROR_INVALID_ARRAY_ELEMENT == "INVALID_ARRAY_ELEMENT"

\* element_type_map with an entry that requires the elements of an
\* array[file] to be maps.
element_type_map_with_file ==
    [t \in {"ARRAY_STRING", "ARRAY_INTEGER", "ARRAY_NUMBER", "ARRAY_BOOLEAN",
            "ARRAY_OBJECT", "ARRAY_FILE"} |->
        CASE t = "ARRAY_STRING" -> [cls |-> "str", name |-> "string"]
          [] t = "ARRAY_INTEGER" -> [cls |-> "int", name |-> "integer"]
          [] t = "ARRAY_NUMBER" -> [cls |-> "int_or_float", name |-> "number"]
          [] t = "ARRAY_BOOLEAN" -> [cls |-> "bool", name |-> "boolean"]
          [] t = "ARRAY_OBJECT" -> [cls |-> "dict", name |-> "object"]
          [] t = "ARRAY_FILE" -> [cls |-> "dict", name |-> "file"]]

\* element_type_map: the class and the name of the element type of an
\* array type; array[file] has no entry.
element_type_map ==
    [t \in {"ARRAY_STRING", "ARRAY_INTEGER", "ARRAY_NUMBER", "ARRAY_BOOLEAN",
            "ARRAY_OBJECT"} |->
        CASE t = "ARRAY_STRING" -> [cls |-> "str", name |-> "string"]
          [] t = "ARRAY_INTEGER" -> [cls |-> "int", name |-> "integer"]
          [] t = "ARRAY_NUMBER" -> [cls |-> "int_or_float", name |-> "number"]
          [] t = "ARRAY_BOOLEAN" -> [cls |-> "bool", name |-> "boolean"]
          [] t = "ARRAY_OBJECT" -> [cls |-> "dict", name |-> "object"]]

\* ElementError numbering the elements from 1 in the path.
ElementError_one_based(element, array_type, path, i) ==
    LET ev == element_type_map[array_type]
        at == path \o "[" \o ToString(i) \o "]"
    IN IF array_type \in {"ARRAY_INTEGER", "ARRAY_NUMBER"} /\ isinstance(element, "bool")
       THEN <<ValidationError(at, "Array element expected " \o ev.name \o ", got boolean",
                              ERROR_TYPE_MISMATCH)>>
       ELSE IF ~isinstance(element, ev.cls)
       THEN <<ValidationError(at, "Array element expected " \o ev.name \o ", got " \o element.t,
                              ERROR_TYPE_MISMATCH)>>
       ELSE <<>>

\* The error of one element, <<>> when it conforms.
ElementError(element, array_type, path, i) ==
    LET ev == element_type_map[array_type]
        at == path \o "[" \o ToString(i - 1) \o "]"
    IN IF array_type \in {"ARRAY_INTEGER", "ARRAY_NUMBER"} /\ isinstance(element, "bool")
       THEN <<ValidationError(at, "Array element expected " \o ev.name \o ", got boolean",
                              ERROR_TYPE_MISMATCH)>>
       ELSE IF ~isinstance(element, ev.cls)
       THEN <<ValidationError(at, "Array element expected " \o ev.name \o ", got " \o element.t,
                              ERROR_TYPE_MISMATCH)>>
       ELSE <<>>

\* validate_array_elements returning the errors of all failing elements.
validate_array_elements_all(val, array_type, path) ==
    IF array_type \notin DOMAIN element_type_map THEN <<>>
    ELSE LET RECURSIVE from(_)
             from(i) == IF i > Len(val.items) THEN <<>>
                        ELSE ElementError(val.items[i], array_type, path, i) \o from(i + 1)
         IN from(1)

\* Returns the error of the first element that fails, <<>> when none does.
validate_array_elements(val, array_type, path) ==
    IF array_type \notin DOMAIN element_type_map THEN <<>>
    ELSE LET bad == {i \in 1..Len(val.items) :
                        ElementError(val.items[i], array_type, path, i) # <<>>}
         IN IF bad = {} THEN <<>>
            ELSE LET first == CHOOSE i \in bad : \A j \in bad : i <= j
                 IN ElementError(val.items[first], array_type, path, first)

\* type_validators: the class and the name checked for a type; file has no
\* entry.
type_validators ==
    [t \in NestedVariableType \ {"FILE"} |->
        CASE t = "STRING" -> [cls |-> "str", name |-> "string"]
          [] t = "INTEGER" -> [cls |-> "int", name |-> "integer"]
          [] t = "NUMBER" -> [cls |-> "int_or_float", name |-> "number"]
          [] t = "BOOLEAN" -> [cls |-> "bool", name |-> "boolean"]
          [] t = "OBJECT" -> [cls |-> "dict", name |-> "object"]
          [] OTHER -> [cls |-> "list", name |-> TypeValue(t)]]

\* validate_type without the test that keeps a boolean from passing as a
\* number.
validate_type_bool_is_int(val, expected_type, path) ==
    IF expected_type \notin DOMAIN type_validators THEN <<>>
    ELSE
      LET tv == type_validators[expected_type]
      IN IF ~isinstance(val, tv.cls)
         THEN <<ValidationError(path, "Expected " \o tv.name \o ", got " \o val.t,
                                ERROR_TYPE_MISMATCH)>>
         ELSE IF is_array(expected_type) /\ isinstance(val, "list")
         THEN validate_array_elements(val, expected_type, path)
         ELSE <<>>

\* <<>> when the value has the expected type, else the one error.
validate_type(val, expected_type, path) ==
    IF expected_type \notin DOMAIN type_validators THEN <<>>
    ELSE
      LET tv == type_validators[expected_type]
      IN IF expected_type \in {"INTEGER", "NUMBER"} /\ isinstance(val, "bool")
         THEN <<ValidationError(path, "Expected " \o tv.name \o ", got boolean",
                                ERROR_TYPE_MISMATCH)>>
         ELSE IF ~isinstance(val, tv.cls)
         THEN <<ValidationError(path, "Expected " \o tv.name \o ", got " \o val.t,
                                ERROR_TYPE_MISMATCH)>>
         ELSE IF is_array(expected_type) /\ isinstance(val, "list")
         THEN validate_array_elements(val, expected_type, path)
         ELSE <<>>

RECURSIVE validate_value(_, _, _)
RECURSIVE ValidateChildren(_, _, _, _)
RECURSIVE ValidateItems(_, _, _, _)
RECURSIVE ValidateItems_one_based(_, _, _, _)

\* ValidateChildren returning at the first child that has errors.
ValidateChildren_first_only(holder, children, path, k) ==
    IF k > Len(children) THEN <<>>
    ELSE LET here == validate_value(DictGet(holder, children[k].name), children[k], path)
         IN IF here # <<>> THEN here
            ELSE ValidateChildren(holder, children, path, k + 1)

\* The loop over definition.children from child k on: each child is
\* validated against holder.get(child.name) and the errors are appended.
ValidateChildren(holder, children, path, k) ==
    IF k > Len(children) THEN <<>>
    ELSE validate_value(DictGet(holder, children[k].name), children[k], path)
         \o ValidateChildren(holder, children, path, k + 1)

\* ValidateItems numbering the elements from 1 in the base path.
ValidateItems_one_based(val, definition, current_path, i) ==
    IF i > Len(val.items) THEN <<>>
    ELSE
      LET item == val.items[i]
          item_path == current_path \o "[" \o ToString(i) \o "]"
      IN (IF ~isinstance(item, "dict")
          THEN <<ValidationError(item_path, "Array element must be an object",
                                 ERROR_INVALID_ARRAY_ELEMENT)>>
          ELSE ValidateChildren(item, definition.children.items, item_path, 1))
         \o ValidateItems_one_based(val, definition, current_path, i + 1)

\* The loop over the elements of an array[object] value from element i on.
ValidateItems(val, definition, current_path, i) ==
    IF i > Len(val.items) THEN <<>>
    ELSE
      LET item == val.items[i]
          item_path == current_path \o "[" \o ToString(i - 1) \o "]"
      IN (IF ~isinstance(item, "dict")
          THEN <<ValidationError(item_path, "Array element must be an object",
                                 ERROR_INVALID_ARRAY_ELEMENT)>>
          ELSE ValidateChildren(item, definition.children.items, item_path, 1))
         \o ValidateItems(val, definition, current_path, i + 1)

validate_value(val, definition, path) ==
    LET current_path == IF path # "" THEN path \o "." \o Str(definition.name)
                        ELSE Str(definition.name)
    IN IF val = None
       THEN IF definition.required
            THEN <<ValidationError(current_path, "Required field is missing",
                                   ERROR_REQUIRED_FIELD_MISSING)>>
            ELSE <<>>
       ELSE IF validate_type(val, definition.type, current_path) # <<>>
       THEN validate_type(val, definition.type, current_path)
       ELSE
         (IF HasChildren(definition) /\ isinstance(val, "dict")
          THEN ValidateChildren(val, definition.children.items, current_path, 1)
          ELSE <<>>)
         \o
         (IF definition.type = "ARRAY_OBJECT" /\ HasChildren(definition)
             /\ isinstance(val, "list")
          THEN ValidateItems(val, definition, current_path, 1)
          ELSE <<>>)

-----------------------------------------------------------------------------
(* SpecVal: validate_value is applied to a definition and a runtime value.  *)

\* Longest list offered as a runtime value.
MaxArrayLen == 2

\* A definition without children, built through the constructor.
Leaf(name, type, required) ==
    NewDefinition(name, type, required, "", "None", NoChildren).def

\* A definition with children, built through the constructor.
Parent(name, type, required, children) ==
    NewDefinition(name, type, required, "", "None", ChildList(children)).def

ScalarValues ==
    {None, Scalar("str", "x"), Scalar("int", "1"), Scalar("bool", "True"),
     Scalar("float", "1.5")}

\* Lists of at most MaxArrayLen elements drawn from elems.
ListsOver(elems) ==
    {ListOf(xs) : xs \in UNION {[1..n -> elems] : n \in 0..MaxArrayLen}}

\* Dicts whose keys are among a and b, each key absent or bound to a value
\* drawn from vals.
DictsOver(vals) ==
    {DictOf(f) : f \in UNION {[ks -> vals] : ks \in SUBSET {<<"a">>, <<"b">>}}}

\* Child definitions: a is a string or an integer, b likewise.
ChildLeaves(name) ==
    {Leaf(name, t, r) : t \in {"STRING", "INTEGER"}, r \in BOOLEAN}

ChildLists ==
    {<<ca>> : ca \in ChildLeaves(<<"a">>)}
    \cup {<<ca, cb>> : ca \in ChildLeaves(<<"a">>), cb \in ChildLeaves(<<"b">>)}

\* A definition of every type without children, against scalars, lists of
\* scalars and an empty dict.
LeafInputs ==
    {<<Leaf(<<"u">>, t, r), val>> :
        t \in NestedVariableType, r \in BOOLEAN,
        val \in ScalarValues \cup ListsOver(ScalarValues) \cup {DictOf(NoFields)}}

\* An object with one or two children against dicts (and two non-dicts).
ObjectInputs ==
    {<<Parent(<<"u">>, "OBJECT", TRUE, cs), val>> :
        cs \in ChildLists,
        val \in DictsOver({None, Scalar("str", "x"), Scalar("int", "1"),
                           Scalar("bool", "True")})
                \cup {None, Scalar("str", "x")}}

\* An array[object] with one or two children against lists whose elements
\* are dicts, a string or None.
ArrayObjectInputs ==
    {<<Parent(<<"u">>, "ARRAY_OBJECT", TRUE, cs), val>> :
        cs \in ChildLists,
        val \in ListsOver(DictsOver({None, Scalar("str", "x")})
                          \cup {Scalar("str", "x"), None})}

\* An object whose child a is itself an object with a required child b.
NestedInputs ==
    {<<Parent(<<"u">>, "OBJECT", TRUE,
              <<Parent(<<"a">>, "OBJECT", r,
                       <<Leaf(<<"b">>, "STRING", TRUE)>>)>>), val>> :
        r \in BOOLEAN,
        val \in DictsOver({None, Scalar("str", "x")}
                          \cup DictsOver({None, Scalar("str", "x")}))}

ValInputs == LeafInputs \cup ObjectInputs \cup ArrayObjectInputs \cup NestedInputs

InitVal ==
    /\ \E inp \in ValInputs :
        /\ vdef = <<inp[1]>>
        /\ value = <<inp[2]>>
    /\ errors = <<>>
    /\ SerIdle
    /\ PoolIdle
    /\ TplIdle
    /\ PipeIdle

\* NestedVariableValidator.validate_value(value, definition)
Validate ==
    /\ errors = <<>>
    /\ errors' = <<validate_value(value[1], vdef[1], "")>>
    /\ UNCHANGED <<vdef, value>>
    /\ UNCHANGED <<serVars, poolVars, tplVars>>
    /\ UNCHANGED pipeVars

NextVal == Validate

SpecVal == InitVal /\ [][NextVal]_vars

-----------------------------------------------------------------------------
(* Claims about validate_value *)

Range(xs) == {xs[i] : i \in 1..Len(xs)}

\* base[i] with the elements numbered from 0.
IndexedPath(base, i) == base \o "[" \o ToString(i) \o "]"

\* The paths of the children of d below the path at.
ChildPaths(d, at) ==
    IF HasChildren(d)
    THEN {at \o "." \o Str(d.children.items[k].name) : k \in 1..Len(d.children.items)}
    ELSE {}

\* Element i (from 1) of a list value violates the definition d.
ElementViolates(d, val, i) ==
    IF d.type = "ARRAY_OBJECT"
    THEN \/ val.items[i].t # "dict"
         \/ /\ HasChildren(d)
            /\ \E k \in 1..Len(d.children.items) :
                  validate_value(DictGet(val.items[i], d.children.items[k].name),
                                 d.children.items[k], "") # <<>>
    ELSE /\ d.type \in DOMAIN element_type_map
         /\ ElementError(val.items[i], d.type, "", i) # <<>>

\* Every violating child of a dict value has an error at its path.
SiblingsAllReported ==
    errors # <<>> /\ value[1].t = "dict" /\ vdef[1].type = "OBJECT" =>
        \A k \in 1..Len(vdef[1].children.items) :
            LET c == vdef[1].children.items[k]
                cpath == Str(vdef[1].name) \o "." \o Str(c.name)
            IN validate_value(DictGet(value[1], c.name), c, "") # <<>> =>
                 \E e \in Range(errors[1]) :
                     e.path \in {cpath} \cup ChildPaths(c, cpath)

\* C2 (as stated): every violating sibling field and every violating array
\* element has an error in the returned list.
C2_NoShortCircuit ==
    /\ SiblingsAllReported
    /\ errors # <<>> /\ value[1].t = "list" /\ is_array(vdef[1].type) =>
        \A i \in 1..Len(value[1].items) :
            ElementViolates(vdef[1], value[1], i) =>
                \E e \in Range(errors[1]) :
                    e.path \in {IndexedPath(Str(vdef[1].name), i - 1)}
                               \cup ChildPaths(vdef[1], IndexedPath(Str(vdef[1].name), i - 1))

\* Element i (from 1) of a list value fails the element type check of d.
ElementTypeFails(d, val, i) ==
    /\ d.type \in DOMAIN element_type_map
    /\ \/ ~isinstance(val.items[i], element_type_map[d.type].cls)
       \/ d.type \in {"ARRAY_INTEGER", "ARRAY_NUMBER"} /\ val.items[i].t = "bool"

\* C2 (amended): sibling fields never short-circuit, and neither do the
\* elements of an array[object] value whose elements are all maps; but when
\* elements of an array fail the element type check, the list holds exactly
\* one error, a TYPE_MISMATCH at the first such element.
C2_NoShortCircuitExceptElementTypes ==
    /\ SiblingsAllReported
    /\ errors # <<>> /\ value[1].t = "list" /\ is_array(vdef[1].type) =>
        LET d == vdef[1]
            val == value[1]
            failing == {i \in 1..Len(val.items) : ElementTypeFails(d, val, i)}
        IN IF failing = {}
           THEN \A i \in 1..Len(val.items) :
                   ElementViolates(d, val, i) =>
                       \E e \in Range(errors[1]) :
                           e.path \in ChildPaths(d, IndexedPath(Str(d.name), i - 1))
           ELSE /\ Len(errors[1]) = 1
                /\ errors[1][1].error_code = ERROR_TYPE_MISMATCH
                /\ errors[1][1].path =
                     IndexedPath(Str(d.name),
                                 (CHOOSE i \in failing : \A j \in failing : i <= j) - 1)

\* Two map elements of one array[object] value each miss a required child
\* and both are reported.
C2_Witness ==
    /\ errors # <<>>
    /\ vdef[1].type = "ARRAY_OBJECT"
    /\ value[1].t = "list"
    /\ Len(value[1].items) = 2
    /\ \A i \in 1..2 : value[1].items[i].t = "dict" /\ ElementViolates(vdef[1], value[1], i)
    /\ Len(errors[1]) >= 2

\* The input is an array[object] definition with children and a list value.
ArrayObjectCase ==
    /\ errors # <<>>
    /\ vdef[1].type = "ARRAY_OBJECT"
    /\ HasChildren(vdef[1])
    /\ value[1].t = "list"

\* The errors of validating every child against a map element, with at as
\* the base path.
ErrorsOfElement(d, item, at) ==
    UNION {Range(validate_value(DictGet(item, d.children.items[k].name),
                                d.children.items[k], at)) :
              k \in 1..Len(d.children.items)}

\* C3 (as stated): every non-map element i gets INVALID_ARRAY_ELEMENT at
\* name[i], and the children are validated against every map element with
\* name[i] as the base path.
C3_InvalidArrayElement ==
    ArrayObjectCase =>
        \A i \in 1..Len(value[1].items) :
            LET at == IndexedPath(Str(vdef[1].name), i - 1)
            IN IF value[1].items[i].t # "dict"
               THEN \E e \in Range(errors[1]) :
                       e.path = at /\ e.error_code = ERROR_INVALID_ARRAY_ELEMENT
               ELSE ErrorsOfElement(vdef[1], value[1].items[i], at) \subseteq Range(errors[1])

\* C3 (amended): when some element is not a map the list is exactly one
\* TYPE_MISMATCH at name[i] for the first such element i and no child is
\* validated; when every element is a map the children are validated
\* against every element with name[i] as the base path, and nothing else is
\* reported.  INVALID_ARRAY_ELEMENT is never emitted.
C3_FirstNonMapIsTypeMismatch ==
    ArrayObjectCase =>
        LET d == vdef[1]
            val == value[1]
            nonmaps == {i \in 1..Len(val.items) : val.items[i].t # "dict"}
        IN /\ \A e \in Range(errors[1]) : e.error_code # ERROR_INVALID_ARRAY_ELEMENT
           /\ IF nonmaps # {}
              THEN /\ Len(errors[1]) = 1
                   /\ errors[1][1].error_code = ERROR_TYPE_MISMATCH
                   /\ errors[1][1].path =
                        IndexedPath(Str(d.name),
                                    (CHOOSE i \in nonmaps : \A j \in nonmaps : i <= j) - 1)
              ELSE Range(errors[1]) =
                     UNION {ErrorsOfElement(d, val.items[i], IndexedPath(Str(d.name), i - 1)) :
                               i \in 1..Len(val.items)}

\* A list whose first element is a valid map and whose second is a string
\* has been validated against an array[object] with children.
C3_Witness ==
    /\ ArrayObjectCase
    /\ Len(value[1].items) = 2
    /\ value[1].items[1].t = "dict"
    /\ value[1].items[2].t = "str"
    /\ Len(errors[1]) = 1

-----------------------------------------------------------------------------
(* Memory.  A dict is an object with an identity: heap maps the identity   *)
(* to the dict's cells, and a cell that holds a dict holds its identity,   *)
(* so that two holders of one dict see each other's writes.  Scalars and   *)
(* lists are kept in the cell itself.  An identity is <<k, p>>: the k-th   *)
(* allocation, and the key path p of the dict inside that allocation.      *)

NullRef == <<0, <<>>>>

\* The cell (and the segment) for a value whose dict, if it is one, lives
\* at id.
CellOf(tree, id) ==
    [t |-> tree.t, v |-> tree.v, items |-> tree.items,
     ref |-> IF tree.t = "dict" THEN id ELSE NullRef]

\* The cell (and the segment) that holds the dict at id.
ObjectSegment(id) == [t |-> "dict", v |-> "", items |-> <<>>, ref |-> id]

RECURSIVE TreeAt(_, _)
\* The value found in a dict value by following the keys of p.
TreeAt(tree, p) ==
    IF p = <<>> THEN tree ELSE TreeAt(tree.fields[Head(p)], Tail(p))

RECURSIVE DictPaths(_)
\* The key paths of the dicts nested in a value, itself included.
DictPaths(tree) ==
    IF tree.t # "dict" THEN {}
    ELSE {<<>>} \cup UNION {{<<key>> \o p : p \in DictPaths(tree.fields[key])} :
                               key \in DOMAIN tree.fields}

\* The objects of a dict value laid out in memory as allocation k.
Objects(tree, k) ==
    [id \in {<<k, p>> : p \in DictPaths(tree)} |->
        LET node == TreeAt(tree, id[2])
        IN [key \in DOMAIN node.fields |->
               CellOf(node.fields[key], <<k, Append(id[2], key)>>)]]

RECURSIVE DeepValue(_, _)
\* The value read through a cell.
DeepValue(h, cell) ==
    IF cell.t = "dict"
    THEN DictOf([key \in DOMAIN h[cell.ref] |-> DeepValue(h, h[cell.ref][key])])
    ELSE [t |-> cell.t, v |-> cell.v, items |-> cell.items, fields |-> NoFields]

\* The objects of h not made by the allocations ks.
Drop(h, ks) == [id \in {i \in DOMAIN h : i[1] \notin ks} |-> h[id]]

\* dict(obj): a new object with the same cells.
shallow_copy(h, id, k) ==
    [heap |-> (<<k, <<>>>> :> h[id]) @@ h, root |-> <<k, <<>>>>]

\* copy.deepcopy(obj): every dict reachable from obj is copied, as
\* allocation k.
deepcopy(h, id, k) ==
    [heap |-> Objects(DeepValue(h, ObjectSegment(id)), k) @@ h,
     root |-> <<k, <<>>>>]

-----------------------------------------------------------------------------
(* VariablePool: add and get of the base class, as the specification       *)
(* describes them.                                                         *)

\* variable_factory.build_segment(value): the typed wrapper of a value.
build_segment(tree, id) == CellOf(tree, id)

\* VariablePool.add(selector, value): ok is FALSE where the selector is
\* rejected.
add(vd, selector, segment) ==
    IF Len(selector) < 2
    THEN [ok |-> FALSE, vd |-> vd]
    ELSE LET scope == IF selector[1] \in DOMAIN vd THEN vd[selector[1]]
                      ELSE [n \in {} |-> 0]
         IN [ok |-> TRUE,
             vd |-> (selector[1] :> ((selector[2] :> segment) @@ scope)) @@ vd]

RECURSIVE WalkPath(_, _, _)
\* The extra segments of a selector walked against a stored value: <<>>
\* when a step meets a non-dict or a missing key.
WalkPath(h, cell, segs) ==
    IF segs = <<>> THEN <<cell>>
    ELSE IF cell.t # "dict" THEN <<>>
    ELSE IF Head(segs) \notin DOMAIN h[cell.ref] THEN <<>>
    ELSE WalkPath(h, h[cell.ref][Head(segs)], Tail(segs))

\* VariablePool.get(selector): <<>> is None, <<segment>> a segment.
get(vd, h, selector) ==
    IF Len(selector) < 2 THEN <<>>
    ELSE IF selector[1] \notin DOMAIN vd THEN <<>>
    ELSE IF selector[2] \notin DOMAIN vd[selector[1]] THEN <<>>
    ELSE WalkPath(h, vd[selector[1]][selector[2]], SubSeq(selector, 3, Len(selector)))

\* The mapping left behind by a lookup that creates the scope it misses.
after_get_inserting(vd, selector) ==
    IF Len(selector) >= 1 /\ selector[1] \notin DOMAIN vd
    THEN (selector[1] :> [n \in {} |-> 0]) @@ vd
    ELSE vd

\* The scope -> name -> segment mapping after VariablePool.get(selector):
\* the lookups create nothing.
after_get(vd, selector) == vd

-----------------------------------------------------------------------------
(* EnhancedVariablePool (enhanced_variable_pool.py) *)

RECURSIVE Join(_)
\* ".".join(parts)
Join(parts) ==
    IF Len(parts) = 1 THEN parts[1]
    ELSE parts[1] \o <<".">> \o Join(Tail(parts))

RECURSIVE split(_, _)
\* str.split(sep) for a one-character separator.
split(cs, sep) ==
    IF \A i \in 1..Len(cs) : cs[i] # sep THEN <<cs>>
    ELSE LET i == CHOOSE j \in 1..Len(cs) :
                     cs[j] = sep /\ \A m \in 1..(j - 1) : cs[m] # sep
         IN <<SubSeq(cs, 1, i - 1)>> \o split(SubSeq(cs, i + 1, Len(cs)), sep)

\* get_nested_value that forwards the bare selector whatever the path.
get_nested_value_unextended(vd, h, selector, nested_path) ==
    get(vd, h, selector)

\* get_nested_value(selector, nested_path)
get_nested_value(vd, h, selector, nested_path) ==
    IF ~nested_path.none /\ nested_path.s # <<>>
    THEN get(vd, h, selector \o split(nested_path.s, "."))
    ELSE get(vd, h, selector)

\* The mapping after get_nested_value(selector, nested_path): the selector
\* and the parts of the path go into a new list, which is looked up.
after_get_nested_value(vd, selector, nested_path) ==
    IF ~nested_path.none /\ nested_path.s # <<>>
    THEN after_get(vd, selector \o split(nested_path.s, "."))
    ELSE after_get(vd, selector)

\* A final assignment that writes parts[0].
LastPart_first(parts) == parts[1]

\* The key the final assignment writes: parts[-1].
LastPart(parts) == parts[Len(parts)]

RECURSIVE SetPath(_, _, _, _, _, _)
\* A navigation loop that replaces a non-dict intermediate value by a new
\* dict instead of giving up.
SetPath_overwrite(h, current, parts, i, cell, k) ==
    IF i >= Len(parts)
    THEN [ok |-> TRUE,
          heap |-> [h EXCEPT ![current] = (LastPart(parts) :> cell) @@ h[current]]]
    ELSE
      LET part == parts[i]
          nid == <<k, SubSeq(parts, 1, i)>>
      IN IF part \notin DOMAIN h[current] \/ h[current][part].t # "dict"
         THEN SetPath((nid :> [key \in {} |-> 0])
                         @@ [h EXCEPT ![current] =
                                (part :> ObjectSegment(nid)) @@ h[current]],
                      nid, parts, i + 1, cell, k)
         ELSE SetPath(h, h[current][part].ref, parts, i + 1, cell, k)

\* A final assignment that leaves the new key alone in its dict.
SetPath_clearing(h, current, parts, i, cell, k) ==
    IF i >= Len(parts)
    THEN [ok |-> TRUE,
          heap |-> [h EXCEPT ![current] = (LastPart(parts) :> cell)]]
    ELSE
      LET part == parts[i]
          nid == <<k, SubSeq(parts, 1, i)>>
      IN IF part \notin DOMAIN h[current]
         THEN SetPath((nid :> [key \in {} |-> 0])
                         @@ [h EXCEPT ![current] =
                                (part :> ObjectSegment(nid)) @@ h[current]],
                      nid, parts, i + 1, cell, k)
         ELSE IF h[current][part].t # "dict"
         THEN [ok |-> FALSE, heap |-> h]
         ELSE SetPath(h, h[current][part].ref, parts, i + 1, cell, k)

\* The navigation loop of set_nested_value from part i on, then the final
\* assignment; objects created on the way belong to allocation k.
SetPath(h, current, parts, i, cell, k) ==
    IF i >= Len(parts)
    THEN [ok |-> TRUE,
          heap |-> [h EXCEPT ![current] = (LastPart(parts) :> cell) @@ h[current]]]
    ELSE
      LET part == parts[i]
          nid == <<k, SubSeq(parts, 1, i)>>
      IN IF part \notin DOMAIN h[current]
         THEN SetPath((nid :> [key \in {} |-> 0])
                         @@ [h EXCEPT ![current] =
                                (part :> ObjectSegment(nid)) @@ h[current]],
                      nid, parts, i + 1, cell, k)
         ELSE IF h[current][part].t # "dict"
         THEN [ok |-> FALSE, heap |-> h]
         ELSE SetPath(h, h[current][part].ref, parts, i + 1, cell, k)

\* set_nested_value(selector, nested_path, value).  The caller's value, when
\* it is a dict, is allocation 2g+2; the deep copy is allocation 2g+1.
\* What a failed call allocated is unreachable afterwards and is dropped.
set_nested_value(vd, h, g, selector, nested_path, val) ==
    LET root_segment == get(vd, h, selector)
    IN IF root_segment = <<>> \/ root_segment[1].t # "dict"
       THEN [ret |-> FALSE, vd |-> vd, heap |-> h]
       ELSE
         LET new_obj == deepcopy(h, root_segment[1].ref, 2 * g + 1)
             withValue == Objects(val, 2 * g + 2) @@ new_obj.heap
             done == SetPath(withValue, new_obj.root, split(nested_path, "."), 1,
                             CellOf(val, <<2 * g + 2, <<>>>>), 2 * g + 1)
         IN IF ~done.ok
            THEN [ret |-> FALSE, vd |-> vd,
                  heap |-> Drop(done.heap, {2 * g + 1, 2 * g + 2})]
            ELSE [ret |-> TRUE,
                  vd |-> add(vd, selector,
                             ObjectSegment(new_obj.root)).vd,
                  heap |-> done.heap]

-----------------------------------------------------------------------------
(* SpecPool: a pool is created empty, values are added, read, copied by a   *)
(* caller and updated in place by dot path.                                *)

\* Number of successful writes (add, set_nested_value) explored.
MaxGen == 2

\* Longest dot path offered to set_nested_value, in parts.
MaxPathParts == 2

NodeN == <<"n">>
VarU == <<"u">>
VarS == <<"s">>
VarZ == <<"z">>
KeyA == <<"a">>
KeyB == <<"b">>

\* Dot paths of one to MaxPathParts keys, and the empty string.
PathChoices ==
    {<<>>} \cup {Join(parts) : parts \in UNION {[1..n -> {KeyA, KeyB}] : n \in 1..MaxPathParts}}

\* A dict whose values are falsy: None, "", 0 and False.
FalsyDict ==
    DictOf((KeyA :> None) @@ (KeyB :> Scalar("str", ""))
           @@ (<<"a", "b">> :> Scalar("int", "0"))
           @@ (<<"b", "a">> :> Scalar("bool", "False")))

Nested == DictOf(KeyA :> DictOf(KeyB :> Scalar("str", "x")))

Flat == DictOf((KeyA :> Scalar("str", "x")) @@ (KeyB :> DictOf(NoFields)))

AddInputs ==
    ({<<NodeN, VarU>>} \X {Scalar("str", "x"), Nested, Flat, FalsyDict})
    \cup {<<<<NodeN, VarS>>, Nested>>, <<<<NodeN>>, Nested>>}

SetValues == {None, DictOf(KeyB :> Scalar("str", "w"))}

SetInputs ==
    ({<<NodeN, VarU>>} \X PathChoices \X SetValues)
    \cup ({<<NodeN, VarS>>, <<NodeN, VarZ>>} \X {KeyA} \X {Scalar("str", "y")})

GetInputs ==
    {<<>>, <<NodeN>>, <<NodeN, VarU>>, <<NodeN, VarZ>>, <<NodeN, VarU, KeyA>>,
     <<NodeN, VarU, KeyB, KeyA>>, <<NodeN, VarU, <<"b", "a">>>>}

GetNestedInputs ==
    ({<<NodeN, VarU>>} \X {NoPath, PathStr(<<>>), PathStr(KeyA),
                           PathStr(Join(<<KeyA, KeyB>>))})
    \cup {<<<<NodeN, VarZ>>, PathStr(KeyA)>>}

InitPool == SerIdle /\ ValIdle /\ PoolIdle /\ TplIdle /\ PipeIdle

\* pool.add(selector, value); the caller's dict, if the value is one, is
\* allocation 2*gen+2.  A selector that is too short is rejected.
Add ==
    /\ gen < MaxGen
    /\ \E inp \in AddInputs :
        LET id == <<2 * gen + 2, <<>>>>
            r == add(variable_dictionary, inp[1], build_segment(inp[2], id))
        IN /\ variable_dictionary' = r.vd
           /\ heap' = IF r.ok THEN Objects(inp[2], 2 * gen + 2) @@ heap ELSE heap
           /\ gen' = IF r.ok THEN gen + 1 ELSE gen
           /\ last' = [op |-> "add", sel |-> inp[1], path |-> NoPath,
                       val |-> inp[2], ret |-> r.ok, out |-> <<>>]
    /\ UNCHANGED held
    /\ UNCHANGED <<serVars, valVars, tplVars>>
    /\ UNCHANGED pipeVars

\* pool.get(selector)
Get ==
    /\ \E selector \in GetInputs :
        /\ last' = [op |-> "get", sel |-> selector, path |-> NoPath, val |-> None,
                    ret |-> get(variable_dictionary, heap, selector) # <<>>,
                    out |-> get(variable_dictionary, heap, selector)]
        /\ variable_dictionary' = after_get(variable_dictionary, selector)
    /\ UNCHANGED <<heap, gen, held>>
    /\ UNCHANGED <<serVars, valVars, tplVars>>
    /\ UNCHANGED pipeVars

\* pool.get_nested_value(selector, nested_path)
GetNested ==
    /\ \E inp \in GetNestedInputs :
        LET out == get_nested_value(variable_dictionary, heap, inp[1], inp[2])
        IN /\ last' = [op |-> "get_nested", sel |-> inp[1], path |-> inp[2],
                       val |-> None, ret |-> out # <<>>, out |-> out]
           /\ variable_dictionary' =
                 after_get_nested_value(variable_dictionary, inp[1], inp[2])
    /\ UNCHANGED <<heap, gen, held>>
    /\ UNCHANGED <<serVars, valVars, tplVars>>
    /\ UNCHANGED pipeVars

\* pool.set_nested_value(selector, nested_path, value)
SetNested ==
    /\ gen < MaxGen
    /\ \E inp \in SetInputs :
        LET r == set_nested_value(variable_dictionary, heap, gen, inp[1], inp[2], inp[3])
        IN /\ variable_dictionary' = r.vd
           /\ heap' = r.heap
           /\ gen' = IF r.ret THEN gen + 1 ELSE gen
           /\ last' = [op |-> "set_nested", sel |-> inp[1],
                       path |-> PathStr(inp[2]), val |-> inp[3],
                       ret |-> r.ret, out |-> <<>>]
    /\ UNCHANGED held
    /\ UNCHANGED <<serVars, valVars, tplVars>>
    /\ UNCHANGED pipeVars

\* A caller keeps what it got from the pool: the segment of an object
\* variable, and dict(segment.value), a shallow copy of its dict.  snap
\* records what both read at that moment.
TakeCopy ==
    /\ held = <<>>
    /\ \E selector \in {<<NodeN, VarU>>} :
        LET seg == get(variable_dictionary, heap, selector)
        IN /\ seg # <<>>
           /\ seg[1].t = "dict"
           /\ held' = <<[sel |-> selector, segment |-> seg[1],
                         copy |-> heap[seg[1].ref],
                         snap |-> DeepValue(heap, seg[1])]>>
           /\ last' = [op |-> "copy", sel |-> selector, path |-> NoPath,
                       val |-> None, ret |-> TRUE, out |-> seg]
    /\ UNCHANGED <<heap, variable_dictionary, gen>>
    /\ UNCHANGED <<serVars, valVars, tplVars>>
    /\ UNCHANGED pipeVars

NextPool == Add \/ Get \/ GetNested \/ SetNested \/ TakeCopy

SpecPool == InitPool /\ [][NextPool]_vars

\* What the holder reads now through the shallow copy it took.
HeldCopyValue ==
    DictOf([key \in DOMAIN held[1].copy |-> DeepValue(heap, held[1].copy[key])])

\* What the holder reads now through the segment it took.
HeldSegmentValue == DeepValue(heap, held[1].segment)

\* The parts of the dot path of the last call.
LastParts == split(last.path.s, ".")

\* What the pool reads at a selector: <<>> or <<value>>.
PoolReads(selector) ==
    LET seg == get(variable_dictionary, heap, selector)
    IN IF seg = <<>> THEN <<>> ELSE <<DeepValue(heap, seg[1])>>

RECURSIVE Lookup(_, _)
\* The value found in a value by following keys: <<>> or <<value>>.
Lookup(tree, keys) ==
    IF keys = <<>> THEN <<tree>>
    ELSE IF tree.t # "dict" THEN <<>>
    ELSE IF Head(keys) \notin DOMAIN tree.fields THEN <<>>
    ELSE Lookup(tree.fields[Head(keys)], Tail(keys))

\* C5: set_nested is copy-on-write.  After a successful
\* set_nested(sel, path, v2), what a caller took from the pool before the
\* call (the segment, and a shallow dict copy of its value with the nested
\* maps reachable from it) still reads what it read when taken, while the
\* pool reads v2 at path.
C5_CopyOnWrite ==
    (last.op = "set_nested" /\ last.ret /\ held # <<>>)
        => /\ HeldSegmentValue = held[1].snap
           /\ HeldCopyValue = held[1].snap
           /\ PoolReads(last.sel \o LastParts) = <<last.val>>

\* A copy of the first value added was taken, then a two-part path that
\* held another value in it was set on the same variable.
C5_Witness ==
    /\ last.op = "set_nested" /\ last.ret
    /\ held # <<>>
    /\ held[1].sel = last.sel
    /\ gen = 2
    /\ held[1].segment.ref[1] = 2
    /\ Len(LastParts) = 2
    /\ Lookup(held[1].snap, LastParts) # <<>>
    /\ Lookup(held[1].snap, LastParts) # <<last.val>>

RECURSIVE Blocked(_, _)
\* Walking all parts but the last meets a key that holds a non-map value.
Blocked(tree, parts) ==
    IF Len(parts) <= 1 THEN FALSE
    ELSE IF Head(parts) \notin DOMAIN tree.fields THEN FALSE
    ELSE IF tree.fields[Head(parts)].t # "dict" THEN TRUE
    ELSE Blocked(tree.fields[Head(parts)], Tail(parts))

\* The base selector has no stored value, or the stored value is not a map,
\* or an intermediate part holds a non-map value.
SetMustFail(selector, parts) ==
    \/ PoolReads(selector) = <<>>
    \/ PoolReads(selector)[1].t # "dict"
    \/ Blocked(PoolReads(selector)[1], parts)

\* C6: set_nested returns false when the base selector has no stored
\* value, when the stored value is not a map, or when an intermediate path
\* part holds a non-map value, and in each case the pool is left exactly as
\* it was before the call.
C6_FailedSetLeavesPool ==
    [][(last'.op = "set_nested" /\ SetMustFail(last'.sel, split(last'.path.s, ".")))
          => /\ ~last'.ret
             /\ variable_dictionary' = variable_dictionary
             /\ heap' = heap]_vars

\* A set_nested call was refused because an intermediate part of its path
\* holds a non-map value in a stored map.
C6_Witness ==
    /\ last.op = "set_nested" /\ ~last.ret
    /\ PoolReads(last.sel) # <<>>
    /\ PoolReads(last.sel)[1].t = "dict"
    /\ Blocked(PoolReads(last.sel)[1], LastParts)

\* What get_nested(sel, path) returns for the arguments of the last call.
GetNestedOfLast ==
    get_nested_value(variable_dictionary, heap, last.sel, last.path)

\* C7 as stated: after set_nested(sel, path, v) returns true,
\* get_nested(sel, path) returns v, for any dot path.
C7_SetThenGetAnyPath ==
    (last.op = "set_nested" /\ last.ret)
        => /\ GetNestedOfLast # <<>>
           /\ DeepValue(heap, GetNestedOfLast[1]) = last.val

\* C7: after set_nested(sel, path, v) returns true, get_nested(sel, path)
\* returns v for any non-empty dot path, including paths whose intermediate
\* keys did not exist before the call.  (With the empty string as path the
\* value is stored under the key "" and get_nested returns the whole map.)
C7_SetThenGetNonEmptyPath ==
    (last.op = "set_nested" /\ last.ret /\ last.path.s # <<>>)
        => /\ GetNestedOfLast # <<>>
           /\ DeepValue(heap, GetNestedOfLast[1]) = last.val

\* b.a was set on a map that holds a.b and held no b: the map b was created.
C7_Witness ==
    /\ last.op = "set_nested" /\ last.ret
    /\ last.path.s = Join(<<KeyB, KeyA>>)
    /\ PoolReads(last.sel \o <<KeyA, KeyB>>) = <<Scalar("str", "x")>>
    /\ PoolReads(last.sel \o <<KeyB>>) = <<DictOf(KeyA :> last.val)>>

\* The selector a read resolves: get_nested appends the parts of a path
\* that is given and not empty.
ReadSelector ==
    IF last.op = "get_nested" /\ ~last.path.none /\ last.path.s # <<>>
    THEN last.sel \o LastParts
    ELSE last.sel

\* Resolution of a selector against the stored values: <<>> when it has
\* fewer than two parts, names an unknown (scope, name), or its walk meets
\* a non-map value or a missing key; <<value>> otherwise.
Resolve(selector) ==
    IF Len(selector) < 2 THEN <<>>
    ELSE IF selector[1] \notin DOMAIN variable_dictionary THEN <<>>
    ELSE IF selector[2] \notin DOMAIN variable_dictionary[selector[1]] THEN <<>>
    ELSE Lookup(DeepValue(heap, variable_dictionary[selector[1]][selector[2]]),
                SubSeq(selector, 3, Len(selector)))

\* C8: get returns absent exactly when the selector cannot be resolved; a
\* selector whose every step is a present key yields a typed value, also
\* when the value found is None, the empty string, 0 or false.
C8_AbsentIffUnresolvable ==
    (last.op \in {"get", "get_nested"})
        => /\ last.out = <<>> <=> Resolve(ReadSelector) = <<>>
           /\ last.out # <<>> =>
                 /\ last.out[1].t = Resolve(ReadSelector)[1].t
                 /\ DeepValue(heap, last.out[1]) = Resolve(ReadSelector)[1]

\* get_nested with a path found a stored None and returned it typed.
C8_Witness ==
    /\ last.op = "get_nested"
    /\ last.path = PathStr(KeyA)
    /\ last.out # <<>>
    /\ last.out[1].t = "NoneType"

\* get found a stored False under a three-part selector and returned it
\* typed.
C8_FalsyTyped ==
    /\ last.op = "get"
    /\ Len(last.sel) = 3
    /\ last.out # <<>>
    /\ last.out[1].t = "bool" /\ last.out[1].v = "False"

-----------------------------------------------------------------------------
(* EnhancedVariablePool.add_nested_variable and its value check            *)

\* The outcome of the value check: passed, or ValueError(msg).
Passed == [ok |-> TRUE, msg |-> ""]
ValueError(msg) == [ok |-> FALSE, msg |-> msg]

\* str(type(value))
TypeName(val) == "<class '" \o val.t \o "'>"

RECURSIVE validate_nested_value(_, _)
RECURSIVE NestedChildren(_, _, _, _)
RECURSIVE NestedItems(_, _, _)

\* The loop over definition.children from child k on, against the dict
\* holder; suffix ends the message of a missing required field.
NestedChildren(holder, children, k, suffix) ==
    IF k > Len(children) THEN Passed
    ELSE
      LET child_def == children[k]
          present == child_def.name \in DOMAIN holder.fields
      IN IF child_def.required /\ ~present
         THEN ValueError("Required field '" \o Str(child_def.name)
                         \o "' missing" \o suffix)
         ELSE LET r == IF present
                       THEN validate_nested_value(holder.fields[child_def.name],
                                                  child_def)
                       ELSE Passed
              IN IF ~r.ok THEN r
                 ELSE NestedChildren(holder, children, k + 1, suffix)

\* The loop over the items of an array[object] value from item i on.
NestedItems(val, definition, i) ==
    IF i > Len(val.items) THEN Passed
    ELSE IF ~isinstance(val.items[i], "dict")
    THEN ValueError("Array element must be object")
    ELSE LET r == NestedChildren(val.items[i], definition.children.items, 1,
                                 " in array element")
         IN IF ~r.ok THEN r ELSE NestedItems(val, definition, i + 1)

\* _validate_nested_value(value, definition): the first violation raises.
validate_nested_value(val, definition) ==
    LET type == definition.type
    IN IF type = "STRING" /\ ~isinstance(val, "str")
       THEN ValueError("Expected string, got " \o TypeName(val))
       ELSE IF type = "INTEGER" /\ ~isinstance(val, "int")
       THEN ValueError("Expected integer, got " \o TypeName(val))
       ELSE IF type = "NUMBER" /\ ~isinstance(val, "int_or_float")
       THEN ValueError("Expected number, got " \o TypeName(val))
       ELSE IF type = "BOOLEAN" /\ ~isinstance(val, "bool")
       THEN ValueError("Expected boolean, got " \o TypeName(val))
       ELSE IF type = "OBJECT" /\ ~isinstance(val, "dict")
       THEN ValueError("Expected object, got " \o TypeName(val))
       ELSE IF is_array(type) /\ ~isinstance(val, "list")
       THEN ValueError("Expected array, got " \o TypeName(val))
       ELSE
         LET r == IF type = "OBJECT" /\ HasChildren(definition)
                  THEN NestedChildren(val, definition.children.items, 1, "")
                  ELSE Passed
         IN IF ~r.ok THEN r
            ELSE IF is_array(type) /\ isinstance(val, "list")
                    /\ type = "ARRAY_OBJECT" /\ HasChildren(definition)
            THEN NestedItems(val, definition, 1)
            ELSE Passed

\* _create_nested_segment(value, definition)
create_nested_segment(val, definition, id) == build_segment(val, id)

\* add_nested_variable(selector, nested_definition, value); the caller's
\* value, when it is a dict, is allocation 2g+2.
add_nested_variable(vd, h, g, selector, nested_definition, val) ==
    LET validated == validate_nested_value(val, nested_definition)
        segment == create_nested_segment(val, nested_definition, <<2 * g + 2, <<>>>>)
    IN IF ~validated.ok
       THEN [ok |-> FALSE, msg |-> validated.msg, vd |-> vd, heap |-> h]
       ELSE [ok |-> TRUE, msg |-> "",
             vd |-> add(vd, selector, segment).vd,
             heap |-> Objects(val, 2 * g + 2) @@ h]

-----------------------------------------------------------------------------
(* SpecAdd: one definition and one value are given to add_nested_variable  *)
(* of an empty pool.                                                       *)

InitAdd ==
    /\ \E inp \in ValInputs :
        /\ vdef = <<inp[1]>>
        /\ value = <<inp[2]>>
    /\ errors = <<>>
    /\ SerIdle
    /\ PoolIdle
    /\ TplIdle
    /\ PipeIdle

\* pool.add_nested_variable([n, u], definition, value)
AddNested ==
    /\ last.op = "none"
    /\ LET r == add_nested_variable(variable_dictionary, heap, gen,
                                    <<NodeN, VarU>>, vdef[1], value[1])
       IN /\ variable_dictionary' = r.vd
          /\ heap' = r.heap
          /\ gen' = IF r.ok THEN gen + 1 ELSE gen
          /\ last' = [op |-> "add_nested", sel |-> <<NodeN, VarU>>,
                      path |-> NoPath, val |-> value[1], ret |-> r.ok,
                      out |-> <<r.msg>>]
    /\ UNCHANGED held
    /\ UNCHANGED <<serVars, valVars, tplVars>>
    /\ UNCHANGED pipeVars

NextAdd == AddNested

SpecAdd == InitAdd /\ [][NextAdd]_vars

\* C4 as stated: add_nested stores the value exactly when
\* validate_value(value, definition) reports no error, and stores nothing
\* at the selector when it raises.
C4_StoresIffValueValid ==
    (last.op = "add_nested")
        => /\ last.ret <=> validate_value(value[1], vdef[1], "") = <<>>
           /\ ~last.ret => PoolReads(last.sel) = <<>>
           /\ last.ret => PoolReads(last.sel) = <<value[1]>>

\* A boolean given for a required integer child of an object was stored.
C4_BooleanStoredAsInteger ==
    /\ last.op = "add_nested" /\ last.ret
    /\ vdef[1].type = "OBJECT" /\ HasChildren(vdef[1])
    /\ vdef[1].children.items[1].type = "INTEGER"
    /\ vdef[1].children.items[1].name \in DOMAIN value[1].fields
    /\ value[1].fields[vdef[1].children.items[1].name].t = "bool"

-----------------------------------------------------------------------------
(* EnhancedVariableTemplateParser (enhanced_variable_pool.py)              *)
(*                                                                         *)
(* NESTED_PATTERN is                                                       *)
(*   \{\{#( [a-zA-Z0-9_]{1,50} (?:\.[a-zA-Z_][a-zA-Z0-9_]{0,29}){1,10} )   *)
(*        (?:\.( [a-zA-Z_][a-zA-Z0-9_.]{0,100} ))?#\}\}                    *)
(* No character class of the pattern holds "#", so a match that starts at  *)
(* "{{#" ends at the first "#" after it, and no class of group 1 holds     *)
(* ".", so the segments of group 1 are whole dot-separated parts.          *)

\* {1,50}: the longest first segment.
FirstSegmentMax == 50
\* {0,29}: the longest tail of a later segment of group 1.
SegmentTailMax == 29
\* {1,10}: the most segments of group 1 after the first.
SegmentRepeatMax == 10
\* {0,100}: the longest tail of group 2.
NestedTailMax == 100

WordChars == Letters \cup Digits \cup Underscore

\* [a-zA-Z0-9_]{1,50}
FirstSegmentOK(p) ==
    /\ Len(p) >= 1 /\ Len(p) <= FirstSegmentMax
    /\ \A i \in 1..Len(p) : p[i] \in WordChars

\* [a-zA-Z_][a-zA-Z0-9_]{0,29}
SegmentOK(p) ==
    /\ Len(p) >= 1 /\ Len(p) - 1 <= SegmentTailMax
    /\ p[1] \in Letters \cup Underscore
    /\ \A i \in 2..Len(p) : p[i] \in WordChars

\* [a-zA-Z_][a-zA-Z0-9_.]{0,100}
NestedOK(p) ==
    /\ Len(p) >= 1 /\ Len(p) - 1 <= NestedTailMax
    /\ p[1] \in Letters \cup Underscore
    /\ \A i \in 2..Len(p) : p[i] \in WordChars \cup {"."}

NoMatch == [ok |-> FALSE, group1 |-> <<>>, group2 |-> NoPath, end |-> 0]

\* The text between "{{#" and "#}}" against the two groups.  The
\* repetition of group 1 is greedy: it takes the most parts that leave a
\* rest group 2 accepts (or no rest).
MatchBody(body) ==
    LET parts == split(body, ".")
        n == Len(parts)
        fits(k) ==
            /\ FirstSegmentOK(parts[1])
            /\ \A i \in 2..(k + 1) : SegmentOK(parts[i])
            /\ \/ k + 1 = n
               \/ NestedOK(Join(SubSeq(parts, k + 2, n)))
        ks == {k \in 1..(n - 1) : k <= SegmentRepeatMax /\ fits(k)}
    IN IF ks = {} THEN NoMatch
       ELSE LET k == CHOOSE m \in ks : \A o \in ks : o <= m
            IN [ok |-> TRUE,
                group1 |-> Join(SubSeq(parts, 1, k + 1)),
                group2 |-> IF k + 1 = n THEN NoPath
                           ELSE PathStr(Join(SubSeq(parts, k + 2, n))),
                end |-> 0]

\* NESTED_PATTERN.match(t, i): a match that starts at position i.
MatchAt(t, i) ==
    IF i + 2 > Len(t) \/ SubSeq(t, i, i + 2) # <<"{", "{", "#">> THEN NoMatch
    ELSE
      LET stops == {j \in (i + 3)..Len(t) : t[j] \notin WordChars \cup {"."}}
      IN IF stops = {} THEN NoMatch
         ELSE
           LET j == CHOOSE m \in stops : \A o \in stops : m <= o
           IN IF j + 2 > Len(t) \/ SubSeq(t, j, j + 2) # <<"#", "}", "}">>
              THEN NoMatch
              ELSE [MatchBody(SubSeq(t, i + 3, j - 1)) EXCEPT !.end = j + 2]

RECURSIVE finditer(_, _)
\* The non-overlapping matches of NESTED_PATTERN in t from position i on,
\* left to right.
finditer(t, i) ==
    IF i > Len(t) THEN <<>>
    ELSE IF MatchAt(t, i).ok
    THEN <<MatchAt(t, i)>> \o finditer(t, MatchAt(t, i).end + 1)
    ELSE finditer(t, i + 1)

\* extract_nested_selectors(): one record per match.
extract_nested_selectors(t) ==
    LET matches == finditer(t, 1)
    IN [m \in 1..Len(matches) |->
          [variable |-> <<"#">> \o matches[m].group1
                        \o (IF matches[m].group2.none THEN <<>>
                            ELSE <<".">> \o matches[m].group2.s)
                        \o <<"#">>,
           selector |-> split(matches[m].group1, "."),
           nested_path |-> matches[m].group2]]

RECURSIVE PyRepr(_)
\* repr(value) of a string, a scalar or a dict of at most one key.
PyRepr(tree) ==
    IF tree.t = "str" THEN "'" \o tree.v \o "'"
    ELSE IF tree.t # "dict" THEN tree.v
    ELSE IF DOMAIN tree.fields = {} THEN "{}"
    ELSE LET key == CHOOSE k \in DOMAIN tree.fields : TRUE
         IN "{'" \o Str(key) \o "': " \o PyRepr(tree.fields[key]) \o "}"

\* str(value)
PyStr(tree) == IF tree.t = "str" THEN tree.v ELSE PyRepr(tree)

\* replacer(match) of format_with_nested_variables, for the match that
\* starts at i: the string form of the value found, or the matched text.
replacer(t, i, vd, h) ==
    LET match == MatchAt(t, i)
        segment == get_nested_value(vd, h, split(match.group1, "."), match.group2)
    IN IF segment # <<>>
       THEN PyStr(DeepValue(h, segment[1]))
       ELSE Str(SubSeq(t, i, match.end))

RECURSIVE sub(_, _, _, _)
\* re.sub(NESTED_PATTERN, replacer, template) from position i on.
sub(t, i, vd, h) ==
    IF i > Len(t) THEN ""
    ELSE IF MatchAt(t, i).ok
    THEN replacer(t, i, vd, h) \o sub(t, MatchAt(t, i).end + 1, vd, h)
    ELSE t[i] \o sub(t, i + 1, vd, h)

\* format_with_nested_variables(variable_pool)
format_with_nested_variables(t, vd, h) == sub(t, 1, vd, h)

-----------------------------------------------------------------------------
(* SpecTpl: a parser is built on a template; its selectors are extracted   *)
(* and it is formatted against a pool.                                     *)

\* Most pieces (placeholders, broken placeholders, plain text) in a template.
MaxPieces == 2

Open == <<"{", "{", "#">>
Close == <<"#", "}", "}">>
Placeholder(body) == Open \o body \o Close

KeyC == <<"c">>

\* n.u followed by eleven more parts: more parts than group 1 can take.
LongBody ==
    Join(<<NodeN, VarU, KeyA, KeyB, KeyA, KeyB, KeyA, KeyB, KeyA, KeyB, KeyA,
           KeyB, KeyA>>)

\* Texts put between the braces.
Bodies ==
    {Join(<<NodeN, VarU>>),                 \* resolves in UserPool
     Join(<<NodeN, VarU, KeyA>>),
     Join(<<NodeN, VarU, KeyA, KeyB>>),
     Join(<<NodeN, VarZ, KeyA>>),           \* resolves nowhere
     KeyA,                                  \* a single segment
     Join(<<<<>>, KeyA>>),                  \* an empty first segment
     Join(<<KeyA, <<>>, KeyB>>),            \* an empty middle segment
     Join(<<KeyA, KeyB, KeyC, <<>>>>),      \* an empty last segment
     Join(<<KeyA, <<"1">>>>),               \* a segment that starts with a digit
     Join(<<<<"1">>, KeyA>>),
     LongBody}

Pieces ==
    {Placeholder(b) : b \in Bodies}
    \cup {Open \o Join(<<NodeN, VarU>>) \o <<"#">>,       \* no closing braces
          <<"#">> \o Join(<<NodeN, VarU>>) \o Close,      \* no opening braces
          <<"!">>}

RECURSIVE Concat(_)
Concat(ps) == IF ps = <<>> THEN <<>> ELSE Head(ps) \o Concat(Tail(ps))

Templates == {Concat(ps) : ps \in UNION {[1..n -> Pieces] : n \in 1..MaxPieces}}

\* VariablePool.empty()
EmptyPool ==
    [vd |-> [sc \in {SYSTEM_VARIABLE_NODE_ID} |-> [n \in {} |-> 0]],
     heap |-> [id \in {} |-> 0]]

\* An empty pool after add([n, u], {"a": {"b": "x"}}).
UserPool ==
    [vd |-> add(EmptyPool.vd, <<NodeN, VarU>>, build_segment(Nested, <<2, <<>>>>)).vd,
     heap |-> Objects(Nested, 2)]

FormatPools == {EmptyPool, UserPool}

InitTpl ==
    /\ \E t \in Templates : template = <<t>>
    /\ extracted = <<>>
    /\ formatted = <<>>
    /\ SerIdle
    /\ ValIdle
    /\ PoolIdle
    /\ PipeIdle

\* parser.extract_nested_selectors()
Extract ==
    /\ extracted = <<>>
    /\ extracted' = <<extract_nested_selectors(template[1])>>
    /\ UNCHANGED <<template, formatted>>
    /\ UNCHANGED <<serVars, valVars, poolVars>>
    /\ UNCHANGED pipeVars

\* parser.format_with_nested_variables(pool)
Format ==
    /\ formatted = <<>>
    /\ \E pool \in FormatPools :
          formatted' = <<[pool |-> pool,
                          text |-> format_with_nested_variables(
                                       template[1], pool.vd, pool.heap)]>>
    /\ UNCHANGED <<template, extracted>>
    /\ UNCHANGED <<serVars, valVars, poolVars>>
    /\ UNCHANGED pipeVars

NextTpl == Extract \/ Format

SpecTpl == InitTpl /\ [][NextTpl]_vars

\* The template is one placeholder {{#body#}} that the pattern matches and
\* whose selector resolves to nothing in the pool it was formatted with.
UnresolvedPlaceholder ==
    /\ formatted # <<>>
    /\ Len(finditer(template[1], 1)) = 1
    /\ MatchAt(template[1], 1).ok
    /\ MatchAt(template[1], 1).end = Len(template[1])
    /\ get_nested_value(formatted[1].pool.vd, formatted[1].pool.heap,
                        split(MatchAt(template[1], 1).group1, "."),
                        MatchAt(template[1], 1).group2) = <<>>

\* The text of a placeholder template between its braces and hashes.
BodyOf(t) == SubSeq(t, Len(Open) + 1, Len(t) - Len(Close))

\* C9 as stated: formatting a template whose placeholder {{#scope.a.b#}}
\* resolves to nothing leaves the single-braced text {scope.a.b} in the
\* output, not the original double-braced text.
C9_FallbackSingleBraced ==
    UnresolvedPlaceholder
        => /\ formatted[1].text = "{" \o Str(BodyOf(template[1])) \o "}"
           /\ formatted[1].text # Str(template[1])

RECURSIVE ClaimedPairs(_, _)
\* The (raw_text, path_segments) pairs of the well-formed placeholders of
\* t from position i on: {{#s1.s2...sn#}} with n >= 2 and no empty segment.
ClaimedPairs(t, i) ==
    IF i > Len(t) THEN <<>>
    ELSE
      LET hashes == {j \in (i + 3)..Len(t) : t[j] = "#"}
          j == CHOOSE m \in hashes : \A o \in hashes : m <= o
          body == SubSeq(t, i + 3, j - 1)
          wellFormed ==
              /\ i + 2 <= Len(t) /\ SubSeq(t, i, i + 2) = Open
              /\ hashes # {}
              /\ j + 2 <= Len(t) /\ SubSeq(t, j, j + 2) = Close
              /\ \A m \in 1..Len(body) : body[m] \notin {"{", "}"}
              /\ Len(split(body, ".")) >= 2
              /\ \A m \in 1..Len(split(body, ".")) : split(body, ".")[m] # <<>>
      IN IF wellFormed
         THEN <<[raw |-> <<"#">> \o body \o <<"#">>, segments |-> split(body, ".")]>>
              \o ClaimedPairs(t, j + 3)
         ELSE ClaimedPairs(t, i + 1)

\* The pairs extraction returned: the raw text, and the selector followed
\* by the parts of the nested path.
ExtractedPairs ==
    [m \in 1..Len(extracted[1]) |->
       [raw |-> extracted[1][m].variable,
        segments |-> extracted[1][m].selector
                     \o (IF extracted[1][m].nested_path.none THEN <<>>
                         ELSE split(extracted[1][m].nested_path.s, "."))]]

\* C10 as stated: extraction returns one pair per well-formed placeholder,
\* in template order, with all n segments, and no pair for a malformed one.
C10_ExtractsWellFormed ==
    extracted # <<>> => ExtractedPairs = ClaimedPairs(template[1], 1)

\* A placeholder with an empty last segment was extracted.
C10_EmptySegmentExtracted ==
    /\ extracted # <<>>
    /\ template[1] = Placeholder(Join(<<KeyA, KeyB, KeyC, <<>>>>))
    /\ Len(extracted[1]) = 1
    /\ extracted[1][1].selector = <<KeyA, KeyB>>
    /\ extracted[1][1].nested_path = PathStr(Join(<<KeyC, <<>>>>))

-----------------------------------------------------------------------------
(* Raw maps: what a caller hands to model_validate, deserialize_definition *)
(* and validate_serialized_definition.                                     *)

RECURSIVE model_validate(_)
\* NestedVariableDefinition.model_validate(data): the fields are read from
\* the map (name and type are required, the type tag must be a member
\* value, children is None or a list of maps), then the validators run.
model_validate(data) ==
    IF "name" \notin DOMAIN data \/ "type" \notin DOMAIN data
    THEN [ok |-> FALSE, def |-> NullDefinition]
    ELSE IF ~TypeFromValue(data["type"]).ok
    THEN [ok |-> FALSE, def |-> NullDefinition]
    ELSE IF "children" \in DOMAIN data /\ data["children"].kind \notin {"list", "none"}
    THEN [ok |-> FALSE, def |-> NullDefinition]
    ELSE
      LET given == "children" \in DOMAIN data /\ data["children"].kind = "list"
          results == IF given
                     THEN [i \in 1..Len(data["children"].items) |->
                              model_validate(data["children"].items[i])]
                     ELSE <<>>
      IN IF \E i \in 1..Len(results) : ~results[i].ok
         THEN [ok |-> FALSE, def |-> NullDefinition]
         ELSE NewDefinition(
                data["name"], TypeFromValue(data["type"]).type,
                IF "required" \in DOMAIN data THEN data["required"] ELSE FALSE,
                IF "description" \in DOMAIN data THEN data["description"] ELSE "",
                IF "default_value" \in DOMAIN data THEN data["default_value"] ELSE "None",
                IF given THEN ChildList([i \in 1..Len(results) |-> results[i].def])
                ELSE NoChildren)

\* data.get(key) is truthy, for the keys name, type and children.
Truthy(data, key) ==
    /\ key \in DOMAIN data
    /\ CASE key = "name" -> data[key] # <<>>
         [] key = "type" -> data[key] # ""
         [] key = "children" -> Len(data[key].items) > 0

RECURSIVE validate_serialized_definition(_)
\* validate_serialized_definition(data): raised is TRUE where the walk over
\* data["children"] meets something that is not a map (AttributeError).
validate_serialized_definition(data) ==
    LET nameErrors == IF ~Truthy(data, "name")
                      THEN <<"Missing required field 'name'">> ELSE <<>>
    IN IF ~Truthy(data, "type")
       THEN [raised |-> FALSE,
             errors |-> nameErrors \o <<"Missing required field 'type'">>]
       ELSE IF ~TypeFromValue(data["type"]).ok
       THEN [raised |-> FALSE,
             errors |-> nameErrors \o <<"Invalid variable type: " \o data["type"]>>]
       ELSE IF ~Truthy(data, "children")
       THEN [raised |-> FALSE, errors |-> nameErrors]
       ELSE IF ~is_nestable(TypeFromValue(data["type"]).type)
       THEN [raised |-> FALSE,
             errors |-> nameErrors
                        \o <<"Children not allowed for type '" \o data["type"] \o "'">>]
       ELSE IF data["children"].kind # "list"
       THEN [raised |-> TRUE, errors |-> <<>>]
       ELSE
         LET children == data["children"].items
             results == [i \in 1..Len(children) |->
                            validate_serialized_definition(children[i])]
             prefixed(i) == [e \in 1..Len(results[i].errors) |->
                                "children[" \o ToString(i - 1) \o "]: "
                                \o results[i].errors[e]]
             RECURSIVE gather(_)
             gather(i) == IF i > Len(children) THEN <<>>
                          ELSE prefixed(i) \o gather(i + 1)
             named == {i \in 1..Len(children) : Truthy(children[i], "name")}
             duplicate == \E i, j \in named :
                              i # j /\ children[i]["name"] = children[j]["name"]
         IN IF \E i \in 1..Len(children) : results[i].raised
            THEN [raised |-> TRUE, errors |-> <<>>]
            ELSE [raised |-> FALSE,
                  errors |-> nameErrors \o gather(1)
                             \o (IF duplicate THEN <<"Duplicate child variable names">>
                                 ELSE <<>>)]

-----------------------------------------------------------------------------
(* SpecWire: a raw map arrives; it is deserialized, given to               *)
(* model_validate and checked by validate_serialized_definition.           *)

\* Deepest raw map offered, in levels.
MaxWireDepth == 6

RawLeaf(name, tag) == ("name" :> name) @@ ("type" :> tag)

RawParent(name, tag, children) ==
    ("name" :> name) @@ ("type" :> tag) @@ ("children" :> children)

\* One-level maps: well-formed ones and one for every way of being wrong.
RawLeaves ==
    {RawLeaf(<<"a">>, "string"),
     RawLeaf(<<"b">>, "array[file]") @@ ("required" :> TRUE),
     ("type" :> "string"),                                \* no name
     RawLeaf(<<>>, "string"),                             \* empty name
     ("name" :> <<"a">>),                                 \* no type
     RawLeaf(<<"a">>, "text-input"),                      \* unknown tag
     RawLeaf(<<"1", "a">>, "string"),                     \* bad name
     RawLeaf(<<"a", "\n">>, "string"),                    \* name ending in a newline
     RawLeaf(<<"a", "-">>, "string"),                     \* bad name
     RawParent(<<"a">>, "object",                         \* a dict of one entry
               WireOther("dict", <<RawLeaf(<<"b">>, "string")>>)),
     RawParent(<<"a">>, "object", WireOther("dict", <<>>)),
     RawParent(<<"a">>, "object", WireOther("none", <<>>)),
     RawParent(<<"a">>, "string", WireList(<<>>))}

\* The maps that put one level around a map.
RawWraps(child) ==
    {RawParent(<<"a">>, "object", WireList(<<child>>)),
     RawParent(<<"a">>, "array[object]", WireList(<<child>>)),
     RawParent(<<"a">>, "string", WireList(<<child>>)),
     RawParent(<<"a">>, "object", WireList(<<child, child>>)),
     RawParent(<<"a">>, "object", WireList(<<RawLeaf(<<"b">>, "number"), child>>))}

RECURSIVE RawChain(_, _)
\* k levels of single-child objects around a map.
RawChain(m, k) ==
    IF k = 0 THEN m
    ELSE RawChain(RawParent(<<"a">>, "object", WireList(<<m>>)), k - 1)

RECURSIVE RawDepth(_)
\* The number of levels of a raw map.
RawDepth(m) ==
    IF ~Truthy(m, "children") \/ m["children"].kind # "list" THEN 1
    ELSE LET depths == {RawDepth(m["children"].items[i]) :
                           i \in 1..Len(m["children"].items)}
         IN 1 + CHOOSE d \in depths : \A x \in depths : x <= d

\* Maps of one and two levels, chains around them, and one more level of
\* every kind around the chains, up to MaxWireDepth levels.
RawInputs ==
    LET low == RawLeaves \cup UNION {RawWraps(m) : m \in RawLeaves}
        chains == {RawChain(m, k) : m \in low, k \in 0..(MaxWireDepth - 1)}
        topped == UNION {RawWraps(m) : m \in chains}
    IN {m \in chains \cup topped : RawDepth(m) <= MaxWireDepth}

InitWire ==
    /\ \E m \in RawInputs : wire = <<m>>
    /\ def = <<>> /\ back = <<>> /\ rejected = FALSE
    /\ ValIdle
    /\ PoolIdle
    /\ TplIdle
    /\ PipeIdle

\* NestedVariableSerializer.deserialize_definition(wire)
Deserialize ==
    /\ back = <<>>
    /\ back' = <<deserialize_definition(wire[1])>>
    /\ UNCHANGED <<def, wire, rejected>>
    /\ UNCHANGED <<valVars, poolVars, tplVars>>
    /\ UNCHANGED pipeVars

\* NestedVariableDefinition.model_validate(wire)
ModelValidate ==
    /\ def = <<>> /\ ~rejected
    /\ IF model_validate(wire[1]).ok
       THEN def' = <<model_validate(wire[1]).def>> /\ UNCHANGED rejected
       ELSE rejected' = TRUE /\ UNCHANGED def
    /\ UNCHANGED <<wire, back>>
    /\ UNCHANGED <<valVars, poolVars, tplVars>>
    /\ UNCHANGED pipeVars

\* NestedVariableSerializer.validate_serialized_definition(wire)
ValidateSerialized ==
    /\ errors = <<>>
    /\ errors' = <<validate_serialized_definition(wire[1])>>
    /\ UNCHANGED <<vdef, value>>
    /\ UNCHANGED <<serVars, poolVars, tplVars>>
    /\ UNCHANGED pipeVars

NextWire == Deserialize \/ ModelValidate \/ ValidateSerialized

SpecWire == InitWire /\ [][NextWire]_vars

-----------------------------------------------------------------------------
(* Claims about SpecWire *)

\* v matches ^[A-Za-z][A-Za-z0-9_]*$ as the re module matches it.
MatchesNamePattern(v) ==
    \E n \in {Len(v), Len(v) - 1} :
        /\ n >= 1
        /\ n = Len(v) \/ v[Len(v)] = "\n"
        /\ v[1] \in Letters
        /\ \A i \in 2..n : v[i] \in Letters \cup Digits \cup Underscore

RECURSIVE WellFormedTree(_)
\* The three rules hold at every node of a definition tree.
WellFormedTree(d) ==
    /\ MatchesNamePattern(d.name)
    /\ Len(d.children.items) > 0 => d.type \in {"OBJECT", "ARRAY_OBJECT"}
    /\ \A i, j \in 1..Len(d.children.items) :
           i < j => d.children.items[i].name # d.children.items[j].name
    /\ \A i \in 1..Len(d.children.items) : WellFormedTree(d.children.items[i])

RECURSIVE RawViolates(_)
\* A raw map breaks one of the three rules at some node.
RawViolates(m) ==
    LET listed == "children" \in DOMAIN m /\ m["children"].kind = "list"
        items == IF listed THEN m["children"].items ELSE <<>>
    IN \/ "name" \in DOMAIN m /\ ~MatchesNamePattern(m["name"])
       \/ /\ Len(items) > 0
          /\ "type" \in DOMAIN m
          /\ m["type"] \notin {"object", "array[object]"}
       \/ \E i, j \in 1..Len(items) :
             /\ i < j
             /\ "name" \in DOMAIN items[i] /\ "name" \in DOMAIN items[j]
             /\ items[i]["name"] = items[j]["name"]
       \/ \E i \in 1..Len(items) : RawViolates(items[i])

RECURSIVE RawMalformed(_, _)
\* Some node of a raw map, reached through lists of children, lacks its
\* name or its type, carries an unrecognised type tag, or carries under
\* "children" a map instead of a list; with nonEmptyOnly the last case
\* counts only for a map that has entries.
RawMalformed(m, nonEmptyOnly) ==
    \/ "name" \notin DOMAIN m
    \/ "type" \notin DOMAIN m
    \/ "type" \in DOMAIN m /\ \A t \in NestedVariableType : TypeValue(t) # m["type"]
    \/ /\ "children" \in DOMAIN m
       /\ m["children"].kind = "dict"
       /\ nonEmptyOnly => Len(m["children"].items) > 0
    \/ /\ "children" \in DOMAIN m
       /\ m["children"].kind = "list"
       /\ \E i \in 1..Len(m["children"].items) :
              RawMalformed(m["children"].items[i], nonEmptyOnly)

C16_EmptyMapIgnored ==
    /\ wire = <<RawParent(<<"a">>, "object", WireOther("dict", <<>>))>>
    /\ back # <<>> /\ back[1].ok

RECURSIVE RawSchemaFault(_)
\* Some node of a raw map has children under a type that is not nestable,
\* or two children of the same name.
RawSchemaFault(m) ==
    LET listed == "children" \in DOMAIN m /\ m["children"].kind = "list"
        items == IF listed THEN m["children"].items ELSE <<>>
    IN \/ /\ Len(items) > 0
          /\ "type" \in DOMAIN m
          /\ m["type"] \notin {"object", "array[object]"}
       \/ \E i, j \in 1..Len(items) :
             /\ i < j
             /\ "name" \in DOMAIN items[i] /\ "name" \in DOMAIN items[j]
             /\ items[i]["name"] = items[j]["name"]
       \/ \E i \in 1..Len(items) : RawSchemaFault(items[i])

\* C17 as stated: validate_serialized_definition returns a non-empty error
\* list for a raw map that nests deeper than MAX_NESTING_DEPTH, has
\* children under a type that is not nestable or has same-named siblings,
\* and an empty list for a map that satisfies all the rules.
C17_SameRulesAsValidateDefinition ==
    errors # <<>> =>
        /\ (RawDepth(wire[1]) > MAX_NESTING_DEPTH \/ RawSchemaFault(wire[1])) =>
               (errors[1].raised \/ errors[1].errors # <<>>)
        /\ (deserialize_definition(wire[1]).ok /\ RawDepth(wire[1]) <= MAX_NESTING_DEPTH) =>
               (~errors[1].raised /\ errors[1].errors = <<>>)

\* A chain of MAX_NESTING_DEPTH + 1 levels has been given an empty error
\* list.
C17_DeepChainAccepted ==
    /\ wire = <<RawChain(RawLeaf(<<"a">>, "string"), MAX_NESTING_DEPTH)>>
    /\ errors = <<[raised |-> FALSE, errors |-> <<>>]>>

\* The rules other than the depth limit are applied: a raw map with
\* children under a type that is not nestable or with same-named siblings
\* gets an error, and a map that deserializes gets none.
C17_RulesOtherThanDepth ==
    errors # <<>> =>
        /\ RawSchemaFault(wire[1]) => (errors[1].raised \/ errors[1].errors # <<>>)
        /\ deserialize_definition(wire[1]).ok =>
               (~errors[1].raised /\ errors[1].errors = <<>>)

-----------------------------------------------------------------------------
(* NestedVariableValidator.validate_definition                             *)
(* (validators/nested_variable_validator.py)                               *)

ERROR_MAX_DEPTH_EXCEEDED == "MAX_DEPTH_EXCEEDED"
ERROR_INVALID_CHILDREN_TYPE == "INVALID_CHILDREN_TYPE"
ERROR_DUPLICATE_CHILD_NAME == "DUPLICATE_CHILD_NAME"

RECURSIVE SetRepr(_)
\* The text of a set of names inside an f-string, "{'a', 'b'}"; the order
\* of the members is the one the set happens to iterate in.
SetRepr(names) ==
    IF names = {} THEN "set()"
    ELSE LET n == CHOOSE x \in names : TRUE
         IN IF names = {n} THEN "{'" \o Str(n) \o "'}"
            ELSE "{'" \o Str(n) \o "', " \o SetRepr(names \ {n}) \o "}"

RECURSIVE validate_definition_inclusive(_, _, _)
RECURSIVE validate_definition_first_child(_, _, _)
RECURSIVE validate_definition(_, _, _)
\* validate_definition refusing the level MAX_NESTING_DEPTH itself.
validate_definition_inclusive(definition, current_depth, path) ==
    LET current_path == IF path # "" THEN path \o "." \o Str(definition.name)
                        ELSE Str(definition.name)
    IN IF current_depth >= MAX_NESTING_DEPTH
       THEN <<ValidationError(current_path,
                              "Maximum nesting depth of "
                              \o ToString(MAX_NESTING_DEPTH) \o " exceeded",
                              ERROR_MAX_DEPTH_EXCEEDED)>>
       ELSE IF ~HasChildren(definition) THEN <<>>
       ELSE IF ~is_nestable(definition.type)
       THEN <<ValidationError(current_path,
                              "Type '" \o TypeValue(definition.type)
                              \o "' does not support children",
                              ERROR_INVALID_CHILDREN_TYPE)>>
       ELSE
         LET children == definition.children.items
             duplicates == {children[j].name : j \in {j \in 1..Len(children) :
                               \E i \in 1..(j - 1) : children[i].name = children[j].name}}
             RECURSIVE below(_)
             below(i) == IF i > Len(children) THEN <<>>
                         ELSE validate_definition_inclusive(children[i], current_depth + 1,
                                                  current_path)
                              \o below(i + 1)
         IN (IF duplicates # {}
             THEN <<ValidationError(current_path,
                                    "Duplicate child names: " \o SetRepr(duplicates),
                                    ERROR_DUPLICATE_CHILD_NAME)>>
             ELSE <<>>)
            \o below(1)

\* validate_definition leaving the loop over the children at the first
\* child that has errors.
validate_definition_first_child(definition, current_depth, path) ==
    LET current_path == IF path # "" THEN path \o "." \o Str(definition.name)
                        ELSE Str(definition.name)
    IN IF current_depth > MAX_NESTING_DEPTH
       THEN <<ValidationError(current_path,
                              "Maximum nesting depth of "
                              \o ToString(MAX_NESTING_DEPTH) \o " exceeded",
                              ERROR_MAX_DEPTH_EXCEEDED)>>
       ELSE IF ~HasChildren(definition) THEN <<>>
       ELSE IF ~is_nestable(definition.type)
       THEN <<ValidationError(current_path,
                              "Type '" \o TypeValue(definition.type)
                              \o "' does not support children",
                              ERROR_INVALID_CHILDREN_TYPE)>>
       ELSE
         LET children == definition.children.items
             duplicates == {children[j].name : j \in {j \in 1..Len(children) :
                               \E i \in 1..(j - 1) : children[i].name = children[j].name}}
             RECURSIVE below(_)
             below(i) == IF i > Len(children) THEN <<>>
                         ELSE LET here == validate_definition_first_child(
                                              children[i], current_depth + 1, current_path)
                              IN IF here # <<>> THEN here ELSE below(i + 1)
         IN (IF duplicates # {}
             THEN <<ValidationError(current_path,
                                    "Duplicate child names: " \o SetRepr(duplicates),
                                    ERROR_DUPLICATE_CHILD_NAME)>>
             ELSE <<>>)
            \o below(1)

\* The list of schema errors of a definition found at level current_depth
\* under path: one MAX_DEPTH_EXCEEDED and nothing below it past the limit,
\* else the node's own error followed by those of its children in order.
validate_definition(definition, current_depth, path) ==
    LET current_path == IF path # "" THEN path \o "." \o Str(definition.name)
                        ELSE Str(definition.name)
    IN IF current_depth > MAX_NESTING_DEPTH
       THEN <<ValidationError(current_path,
                              "Maximum nesting depth of "
                              \o ToString(MAX_NESTING_DEPTH) \o " exceeded",
                              ERROR_MAX_DEPTH_EXCEEDED)>>
       ELSE IF ~HasChildren(definition) THEN <<>>
       ELSE IF ~is_nestable(definition.type)
       THEN <<ValidationError(current_path,
                              "Type '" \o TypeValue(definition.type)
                              \o "' does not support children",
                              ERROR_INVALID_CHILDREN_TYPE)>>
       ELSE
         LET children == definition.children.items
             duplicates == {children[j].name : j \in {j \in 1..Len(children) :
                               \E i \in 1..(j - 1) : children[i].name = children[j].name}}
             RECURSIVE below(_)
             below(i) == IF i > Len(children) THEN <<>>
                         ELSE validate_definition(children[i], current_depth + 1,
                                                  current_path)
                              \o below(i + 1)
         IN (IF duplicates # {}
             THEN <<ValidationError(current_path,
                                    "Duplicate child names: " \o SetRepr(duplicates),
                                    ERROR_DUPLICATE_CHILD_NAME)>>
             ELSE <<>>)
            \o below(1)

\* validate_definitions without the comparison of the root names.
validate_definitions_roots_unchecked(definitions) ==
    LET RECURSIVE each(_)
        each(i) == IF i > Len(definitions) THEN <<>>
                   ELSE validate_definition(definitions[i], 1, "") \o each(i + 1)
    IN each(1)

\* validate_definitions(definitions): one DUPLICATE_CHILD_NAME at the empty
\* path when two definitions share a name, then every definition's errors.
validate_definitions(definitions) ==
    LET duplicates == {definitions[j].name : j \in {j \in 1..Len(definitions) :
                          \E i \in 1..(j - 1) : definitions[i].name = definitions[j].name}}
        RECURSIVE each(_)
        each(i) == IF i > Len(definitions) THEN <<>>
                   ELSE validate_definition(definitions[i], 1, "") \o each(i + 1)
    IN (IF duplicates # {}
        THEN <<ValidationError("", "Duplicate variable names at root level: "
                                   \o SetRepr(duplicates),
                               ERROR_DUPLICATE_CHILD_NAME)>>
        ELSE <<>>)
       \o each(1)

-----------------------------------------------------------------------------
(* SpecDef: a definition tree grows one level at a time through the        *)
(* constructor and is checked by validate_definition.                      *)

\* Deepest tree the constructor is asked to build, in levels.
MaxDefDepth == 7

DefLeaves ==
    {NewDefinition(<<"a">>, "STRING", FALSE, "", "None", NoChildren).def,
     NewDefinition(<<"a">>, "ARRAY_OBJECT", TRUE, "", "None", ChildList(<<>>)).def,
     NewDefinition(<<"a">>, "OBJECT", FALSE, "", "None", NoChildren).def}

InitDef ==
    /\ \E d \in DefLeaves : def = <<d>>
    /\ wire = <<>> /\ back = <<>> /\ rejected = FALSE
    /\ ValIdle
    /\ PoolIdle
    /\ TplIdle
    /\ PipeIdle

\* NestedVariableDefinition(name="a", type=t, children=[...]) around the
\* tree built so far, alone or, under an object, after a sibling; a
\* refused construction leaves the tree as it was.
Wrap ==
    /\ def # <<>>
    /\ get_max_depth(def[1]) < MaxDefDepth
    /\ \E t \in {"OBJECT", "ARRAY_OBJECT", "STRING"} :
       \E sib \in IF t = "OBJECT" THEN {<<>>, <<"a">>, <<"b">>} ELSE {<<>>} :
          LET sibling == NewDefinition(sib, "NUMBER", TRUE, "", "None", NoChildren).def
              children == IF sib = <<>> THEN <<def[1]>> ELSE <<sibling, def[1]>>
              made == NewDefinition(<<"a">>, t, FALSE, "", "None", ChildList(children))
          IN IF made.ok
             THEN def' = <<made.def>> /\ rejected' = FALSE
             ELSE rejected' = TRUE /\ UNCHANGED def
    /\ errors' = <<>>
    /\ UNCHANGED <<wire, back, vdef, value>>
    /\ UNCHANGED <<poolVars, tplVars>>
    /\ UNCHANGED pipeVars

\* NestedVariableValidator.validate_definition(def)
ValidateDefinition ==
    /\ def # <<>>
    /\ errors' = <<validate_definition(def[1], 1, "")>>
    /\ UNCHANGED <<vdef, value>>
    /\ UNCHANGED <<serVars, poolVars, tplVars>>
    /\ UNCHANGED pipeVars

\* NestedVariableValidator.validate_definitions([def, def]) and ([def])
ValidateDefinitions ==
    /\ def # <<>>
    /\ \E twice \in BOOLEAN :
          errors' = <<validate_definitions(IF twice THEN <<def[1], def[1]>>
                                          ELSE <<def[1]>>)>>
    /\ UNCHANGED <<vdef, value>>
    /\ UNCHANGED <<serVars, poolVars, tplVars>>
    /\ UNCHANGED pipeVars

NextDef == Wrap \/ ValidateDefinition \/ ValidateDefinitions

SpecDef == InitDef /\ [][NextDef]_vars

\* C12: validate_definition returns no error for a constructed tree of at
\* most MAX_NESTING_DEPTH levels, a chain of exactly MAX_NESTING_DEPTH
\* levels included, and at least one MAX_DEPTH_EXCEEDED error for every
\* constructed tree of more levels.
C12_DepthLimit ==
    (def # <<>> /\ errors = <<validate_definition(def[1], 1, "")>>) =>
        /\ get_max_depth(def[1]) <= MAX_NESTING_DEPTH => errors[1] = <<>>
        /\ get_max_depth(def[1]) > MAX_NESTING_DEPTH =>
               \E i \in 1..Len(errors[1]) :
                   errors[1][i].error_code = ERROR_MAX_DEPTH_EXCEEDED

\* A chain of MAX_NESTING_DEPTH + 1 single-child objects has been answered
\* with one MAX_DEPTH_EXCEEDED error at the sixth level.
C12_Witness ==
    /\ def # <<>>
    /\ get_max_depth(def[1]) = MAX_NESTING_DEPTH + 1
    /\ errors = <<<<ValidationError("a.a.a.a.a.a", "Maximum nesting depth of 5 exceeded",
                                    ERROR_MAX_DEPTH_EXCEEDED)>>>>

-----------------------------------------------------------------------------
(* Further claims about validate_value (SpecVal) *)

\* The errors of the returned list whose path is one of paths, in order.
ErrorsAt(paths) ==
    LET At(e) == e.path \in paths
    IN SelectSeq(errors[1], At)

\* The paths at and below the field found at the path at: the field, its
\* elements, and its children directly or inside an element.
PathsOf(d, at) ==
    LET elems == {IndexedPath(at, i) : i \in 0..(MaxArrayLen + 1)}
    IN {at} \cup elems \cup ChildPaths(d, at)
       \cup UNION {ChildPaths(d, ep) : ep \in elems}

\* An object definition has been validated against a dict.
ObjectCase ==
    /\ errors # <<>>
    /\ vdef[1].type = "OBJECT"
    /\ HasChildren(vdef[1])
    /\ value[1].t = "dict"

\* C13: for an integer or number field, at the root or as a child of an
\* object, a boolean value gives exactly one error, a TYPE_MISMATCH at the
\* field; a list with a boolean element given to an array[integer] or
\* array[number] field gives exactly one error, a TYPE_MISMATCH.
C13_BooleanIsNotANumber ==
    /\ (errors # <<>> /\ vdef[1].type \in {"INTEGER", "NUMBER"} /\ value[1].t = "bool") =>
          /\ Len(errors[1]) = 1
          /\ errors[1][1].error_code = ERROR_TYPE_MISMATCH
          /\ errors[1][1].path = Str(vdef[1].name)
    /\ (/\ errors # <<>>
        /\ vdef[1].type \in {"ARRAY_INTEGER", "ARRAY_NUMBER"}
        /\ value[1].t = "list"
        /\ \E i \in 1..Len(value[1].items) : value[1].items[i].t = "bool") =>
          /\ Len(errors[1]) = 1
          /\ errors[1][1].error_code = ERROR_TYPE_MISMATCH
          /\ \E i \in 1..Len(value[1].items) :
                errors[1][1].path = IndexedPath(Str(vdef[1].name), i - 1)
    /\ ObjectCase =>
          \A k \in 1..Len(vdef[1].children.items) :
              LET c == vdef[1].children.items[k]
                  cpath == Str(vdef[1].name) \o "." \o Str(c.name)
              IN (c.type \in {"INTEGER", "NUMBER"}
                  /\ DictGet(value[1], c.name).t = "bool") =>
                     /\ Len(ErrorsAt(PathsOf(c, cpath))) = 1
                     /\ ErrorsAt({cpath})[1].error_code = ERROR_TYPE_MISMATCH

\* The list [1, True] given to an array[integer] field has been answered
\* with one TYPE_MISMATCH at the second element.
C13_Witness ==
    /\ errors # <<>>
    /\ vdef[1].type = "ARRAY_INTEGER"
    /\ value[1] = ListOf(<<Scalar("int", "1"), Scalar("bool", "True")>>)
    /\ Len(errors[1]) = 1
    /\ errors[1][1].path = "u[1]"
    /\ errors[1][1].error_code = ERROR_TYPE_MISMATCH

\* C14: a None value gives exactly one REQUIRED_FIELD_MISSING when the
\* field is required and no error when it is not, and nothing else is
\* checked; a child absent from its parent map is handled as None: exactly
\* one REQUIRED_FIELD_MISSING at the path ending in the child's name when
\* the child is required, no error at or below it when it is not.
C14_NoneAndAbsent ==
    /\ (errors # <<>> /\ value[1] = None) =>
          errors[1] = IF vdef[1].required
                      THEN <<ValidationError(Str(vdef[1].name), "Required field is missing",
                                             ERROR_REQUIRED_FIELD_MISSING)>>
                      ELSE <<>>
    /\ ObjectCase =>
          \A k \in 1..Len(vdef[1].children.items) :
              LET c == vdef[1].children.items[k]
                  cpath == Str(vdef[1].name) \o "." \o Str(c.name)
              IN (c.name \notin DOMAIN value[1].fields \/ value[1].fields[c.name] = None) =>
                     ErrorsAt(PathsOf(c, cpath)) =
                         IF c.required
                         THEN <<ValidationError(cpath, "Required field is missing",
                                                ERROR_REQUIRED_FIELD_MISSING)>>
                         ELSE <<>>

\* A required child is absent from the map given for its parent and the
\* list holds its REQUIRED_FIELD_MISSING.
C14_Witness ==
    /\ ObjectCase
    /\ \E k \in 1..Len(vdef[1].children.items) :
          LET c == vdef[1].children.items[k]
          IN /\ c.required
             /\ c.name \notin DOMAIN value[1].fields
             /\ Len(ErrorsAt({Str(vdef[1].name) \o "." \o Str(c.name)})) = 1

\* C20: when the value of a field, at the root or as a child of an object,
\* fails the type check, the list holds for that field exactly one error, a
\* TYPE_MISMATCH at the field or at one of its elements, and no error for
\* anything below it.
C20_TypeMismatchStops ==
    /\ (/\ errors # <<>>
        /\ value[1] # None
        /\ validate_type(value[1], vdef[1].type, Str(vdef[1].name)) # <<>>) =>
          /\ Len(errors[1]) = 1
          /\ errors[1][1].error_code = ERROR_TYPE_MISMATCH
          /\ errors[1][1].path \in
                {Str(vdef[1].name)}
                \cup {IndexedPath(Str(vdef[1].name), i) : i \in 0..(MaxArrayLen + 1)}
    /\ ObjectCase =>
          \A k \in 1..Len(vdef[1].children.items) :
              LET c == vdef[1].children.items[k]
                  cpath == Str(vdef[1].name) \o "." \o Str(c.name)
                  cval == DictGet(value[1], c.name)
              IN (cval # None /\ validate_type(cval, c.type, cpath) # <<>>) =>
                     /\ Len(ErrorsAt(PathsOf(c, cpath))) = 1
                     /\ ErrorsAt(PathsOf(c, cpath))[1].error_code = ERROR_TYPE_MISMATCH
                     /\ ErrorsAt(PathsOf(c, cpath))[1].path = cpath

\* A string was given for a child that is an object with a required child
\* of its own: one TYPE_MISMATCH at the child, nothing below it.
C20_Witness ==
    /\ ObjectCase
    /\ \E k \in 1..Len(vdef[1].children.items) :
          LET c == vdef[1].children.items[k]
          IN /\ c.type = "OBJECT" /\ HasChildren(c)
             /\ DictGet(value[1], c.name).t = "str"
    /\ Len(errors[1]) = 1
    /\ errors[1][1].error_code = ERROR_TYPE_MISMATCH
    /\ errors[1][1].path = "u.a"

-----------------------------------------------------------------------------
(* Workflow API helpers (controllers/console/app/nested_variable_utils.py) *)
(* A variable of a graph is a map in the front-end format: the name is     *)
(* under "variable" or "name", the default under "default_value" or        *)
(* "default".                                                              *)

\* type_mapping: front-end tags and the member values they stand for.
type_mapping ==
    [t \in {"text-input", "paragraph", "select", "number", "checkbox", "file",
            "file-list"} |->
        CASE t = "text-input" -> "string"
          [] t = "paragraph" -> "string"
          [] t = "select" -> "string"
          [] t = "number" -> "number"
          [] t = "checkbox" -> "boolean"
          [] t = "file" -> "file"
          [] t = "file-list" -> "array[file]"]

\* var.get("variable", var.get("name", fallback))
FrontName(var, fallback) ==
    IF "variable" \in DOMAIN var THEN var["variable"]
    ELSE IF "name" \in DOMAIN var THEN var["name"]
    ELSE fallback

RECURSIVE _convert_to_nested_definition_format(_)
\* The map in the format of NestedVariableDefinition; raised is TRUE where
\* the walk over var["children"] meets something that is not a map
\* (AttributeError).
_convert_to_nested_definition_format(var) ==
    LET frontend_type == IF "type" \in DOMAIN var THEN var["type"] ELSE ""
        mapped_type == IF frontend_type \in DOMAIN type_mapping
                       THEN type_mapping[frontend_type] ELSE frontend_type
        base == ("name" :> FrontName(var, <<>>))
                @@ ("type" :> mapped_type)
                @@ ("required" :> IF "required" \in DOMAIN var THEN var["required"] ELSE FALSE)
                @@ ("description" :> IF "description" \in DOMAIN var
                                     THEN var["description"] ELSE "")
        withDefault == IF "default_value" \in DOMAIN var
                       THEN base @@ ("default_value" :> var["default_value"])
                       ELSE IF "default" \in DOMAIN var
                       THEN base @@ ("default_value" :> var["default"])
                       ELSE base
    IN IF ~Truthy(var, "children")
       THEN [raised |-> FALSE, map |-> withDefault]
       ELSE IF var["children"].kind # "list"
       THEN [raised |-> TRUE, map |-> withDefault]
       ELSE
         LET results == [i \in 1..Len(var["children"].items) |->
                            _convert_to_nested_definition_format(var["children"].items[i])]
         IN IF \E i \in 1..Len(results) : results[i].raised
            THEN [raised |-> TRUE, map |-> withDefault]
            ELSE [raised |-> FALSE,
                  map |-> withDefault
                          @@ ("children" :>
                                WireList([i \in 1..Len(results) |-> results[i].map]))]

\* is_nested_variable_type(type_str): the member lookup, then the two
\* literals.
is_nested_variable_type(type_str) ==
    IF TypeFromValue(type_str).ok
    THEN is_nestable(TypeFromValue(type_str).type)
    ELSE type_str \in {"object", "array[object]"}

\* The errors one variable of the node node_id adds to the list.
GraphVariableErrors(node_id, var) ==
    IF ~Truthy(var, "children") THEN [raised |-> FALSE, errors |-> <<>>]
    ELSE IF ~is_nested_variable_type(IF "type" \in DOMAIN var THEN var["type"] ELSE "")
    THEN [raised |-> FALSE, errors |-> <<>>]
    ELSE
      LET converted_var == _convert_to_nested_definition_format(var)
      IN IF converted_var.raised THEN [raised |-> TRUE, errors |-> <<>>]
         ELSE
           LET parsed == model_validate(converted_var.map)
           IN IF ~parsed.ok
              THEN [raised |-> FALSE,
                    errors |-> <<ValidationError(
                                   "node[" \o node_id \o "]."
                                   \o (IF "variable" \in DOMAIN var \/ "name" \in DOMAIN var
                                       THEN Str(FrontName(var, <<>>)) ELSE "unknown"),
                                   "validation error for NestedVariableDefinition",
                                   "INVALID_DEFINITION")>>]
              ELSE
                LET found == validate_definition(parsed.def, 1, "")
                IN [raised |-> FALSE,
                    errors |-> [i \in 1..Len(found) |->
                                   ValidationError("node[" \o node_id \o "]." \o found[i].path,
                                                   found[i].message, found[i].error_code)]]

\* validate_graph_nested_variables(graph): graph is the list of the nodes,
\* each with its id and its variables.
validate_graph_nested_variables(graph) ==
    LET RECURSIVE vars_from(_, _)
        vars_from(n, k) ==
            IF k > Len(graph[n].variables) THEN [raised |-> FALSE, errors |-> <<>>]
            ELSE LET here == GraphVariableErrors(graph[n].id, graph[n].variables[k])
                     rest == vars_from(n, k + 1)
                 IN [raised |-> here.raised \/ rest.raised,
                     errors |-> here.errors \o rest.errors]
        RECURSIVE nodes_from(_)
        nodes_from(n) ==
            IF n > Len(graph) THEN [raised |-> FALSE, errors |-> <<>>]
            ELSE LET here == vars_from(n, 1)
                     rest == nodes_from(n + 1)
                 IN [raised |-> here.raised \/ rest.raised,
                     errors |-> here.errors \o rest.errors]
        all == nodes_from(1)
    IN IF all.raised THEN [raised |-> TRUE, errors |-> <<>>] ELSE all

-----------------------------------------------------------------------------
(* SpecGraph: a front-end variable is converted, and a graph holding it is *)
(* validated.                                                              *)

\* Deepest front-end variable offered, in levels.
MaxFrontDepth == 6

FrontTags ==
    {"json_object", "text-input", "paragraph", "select", "number", "checkbox",
     "file", "file-list", "string", "integer", "object", "array[object]", "slider"}

FrontLeaf(name, tag) ==
    ("variable" :> name) @@ ("label" :> name) @@ ("type" :> tag) @@ ("required" :> FALSE)

FrontParent(name, tag, children) ==
    FrontLeaf(name, tag) @@ ("children" :> WireList(children))

\* Variables without children: one of every tag, and the other spellings
\* of the name and of the default.
FrontLeaves ==
    {FrontLeaf(<<"b">>, tag) : tag \in FrontTags}
    \cup {("name" :> <<"b">>) @@ ("type" :> "string") @@ ("default" :> "x"),
          ("variable" :> <<"b">>) @@ ("type" :> "number") @@ ("default_value" :> "1")
              @@ ("default" :> "x"),
          ("type" :> "text-input"),
          FrontLeaf(<<"1", "a">>, "text-input"),
          FrontParent(<<"b">>, "text-input", <<>>)}

\* One level around children, under every kind of parent tag.
FrontWraps(children) ==
    {FrontParent(<<"a">>, tag, children) :
        tag \in {"object", "array[object]", "json_object", "string", "text-input"}}

RECURSIVE FrontChain(_, _, _)
\* k levels of single-child parents of one tag around a variable.
FrontChain(v, tag, k) ==
    IF k = 0 THEN v ELSE FrontChain(FrontParent(<<"a">>, tag, <<v>>), tag, k - 1)

FrontInputs ==
    LET one == UNION {FrontWraps(<<v>>) : v \in FrontLeaves}
        two == UNION {FrontWraps(<<v, w>>) :
                         v \in {FrontLeaf(<<"b">>, "text-input")},
                         w \in {FrontLeaf(<<"b">>, "number"), FrontLeaf(<<"c">>, "checkbox")}}
        low == FrontLeaves \cup one \cup two
        deep == {FrontChain(v, tag, k) :
                    v \in one \cup two, tag \in {"object", "json_object"},
                    k \in 1..(MaxFrontDepth - 2)}
    IN low \cup deep
       \cup {FrontLeaf(<<"a">>, "object")
             @@ ("children" :> WireOther("dict", <<FrontLeaf(<<"b">>, "string")>>))}

\* The graphs built around a variable: one node holding it, or two nodes
\* of which the first also holds a variable without children.
GraphsOf(v) ==
    {<<[id |-> "n1", variables |-> <<v>>]>>,
     <<[id |-> "n1", variables |-> <<FrontLeaf(<<"z">>, "text-input"), v>>],
       [id |-> "n2", variables |-> <<v>>]>>}

InitGraph ==
    /\ \E v \in FrontInputs : \E g \in GraphsOf(v) :
          /\ wire = <<v>>
          /\ value = <<g>>
    /\ def = <<>> /\ back = <<>> /\ rejected = FALSE
    /\ vdef = <<>> /\ errors = <<>>
    /\ PoolIdle
    /\ TplIdle
    /\ PipeIdle

\* _convert_to_nested_definition_format(wire)
Convert ==
    /\ back = <<>>
    /\ back' = <<_convert_to_nested_definition_format(wire[1])>>
    /\ UNCHANGED <<def, wire, rejected>>
    /\ UNCHANGED <<valVars, poolVars, tplVars>>
    /\ UNCHANGED pipeVars

\* validate_graph_nested_variables(value)
ValidateGraph ==
    /\ errors = <<>>
    /\ errors' = <<validate_graph_nested_variables(value[1])>>
    /\ UNCHANGED <<vdef, value>>
    /\ UNCHANGED <<serVars, poolVars, tplVars>>
    /\ UNCHANGED pipeVars

NextGraph == Convert \/ ValidateGraph

SpecGraph == InitGraph /\ [][NextGraph]_vars

-----------------------------------------------------------------------------
(* Claims about SpecGraph *)

\* The translation table as the claim C15 gives it.
StatedTranslation(tag) ==
    CASE tag = "json_object" -> "object"
      [] tag \in {"text-input", "paragraph", "select"} -> "string"
      [] tag = "number" -> "number"
      [] tag = "checkbox" -> "boolean"
      [] tag = "file" -> "file"
      [] tag = "file-list" -> "array[file]"
      [] OTHER -> tag

RECURSIVE TagsTranslated(_, _, _)
\* The converted map carries at every node the translation of the tag of
\* the variable, json_object being translated when withJsonObject is TRUE.
TagsTranslated(var, map, withJsonObject) ==
    LET tag == IF "type" \in DOMAIN var THEN var["type"] ELSE ""
        listed == Truthy(var, "children") /\ var["children"].kind = "list"
    IN /\ map["type"] = IF tag = "json_object" /\ ~withJsonObject THEN tag
                        ELSE StatedTranslation(tag)
       /\ listed =>
            /\ "children" \in DOMAIN map
            /\ Len(map["children"].items) = Len(var["children"].items)
            /\ \A i \in 1..Len(var["children"].items) :
                  TagsTranslated(var["children"].items[i], map["children"].items[i],
                                 withJsonObject)

\* C15 as stated: the conversion maps json_object to object, text-input,
\* paragraph and select to string, number to number, checkbox to boolean,
\* file to file and file-list to array[file], at every level, and leaves
\* every other tag unchanged.
C15_FrontEndTagsTranslated ==
    (back # <<>> /\ ~back[1].raised) => TagsTranslated(wire[1], back[1].map, TRUE)

\* A variable of type json_object has been converted and still carries the
\* tag json_object.
C15_JsonObjectUnchanged ==
    /\ wire = <<FrontLeaf(<<"b">>, "json_object")>>
    /\ back # <<>> /\ ~back[1].raised
    /\ back[1].map["type"] = "json_object"

\* The entries of the table other than json_object are applied at every
\* level and every other tag, json_object among them, is left unchanged.
C15_TranslatedExceptJsonObject ==
    (back # <<>> /\ ~back[1].raised) => TagsTranslated(wire[1], back[1].map, FALSE)

RECURSIVE FrontDepth(_)
\* The number of levels of a front-end variable.
FrontDepth(v) ==
    IF ~Truthy(v, "children") \/ v["children"].kind # "list" THEN 1
    ELSE LET depths == {FrontDepth(v["children"].items[i]) :
                           i \in 1..Len(v["children"].items)}
         IN 1 + CHOOSE d \in depths : \A x \in depths : x <= d

RECURSIVE FrontFault(_)
\* Some node of a front-end variable has a bad name, children under a tag
\* that stands for no nestable type, or two children of one name.
FrontFault(v) ==
    LET listed == Truthy(v, "children") /\ v["children"].kind = "list"
        items == IF listed THEN v["children"].items ELSE <<>>
        tag == IF "type" \in DOMAIN v THEN v["type"] ELSE ""
    IN \/ ~MatchesNamePattern(FrontName(v, <<>>))
       \/ Len(items) > 0 /\ StatedTranslation(tag) \notin {"object", "array[object]"}
       \/ \E i, j \in 1..Len(items) :
             i < j /\ FrontName(items[i], <<>>) = FrontName(items[j], <<>>)
       \/ \E i \in 1..Len(items) : FrontFault(items[i])

\* The variable under validation has children and a schema error.
FaultyGraphVariable ==
    /\ errors # <<>>
    /\ Truthy(wire[1], "children") /\ wire[1]["children"].kind = "list"
    /\ FrontDepth(wire[1]) > MAX_NESTING_DEPTH \/ FrontFault(wire[1])

\* C18 as stated: a graph variable that has children and a schema error
\* (too deep, same-named siblings, a bad name, children under a tag that is
\* not nestable) gets an error in the list validate_graph_nested_variables
\* returns, whether its tags are canonical or front-end ones.
C18_SchemaErrorsReported ==
    FaultyGraphVariable => errors[1].errors # <<>>

\* A json_object variable with two children of one name has been validated
\* and the list is empty.
C18_JsonObjectSkipped ==
    /\ wire = <<FrontParent(<<"a">>, "json_object",
                            <<FrontLeaf(<<"b">>, "text-input"),
                              FrontLeaf(<<"b">>, "number")>>)>>
    /\ errors = <<[raised |-> FALSE, errors |-> <<>>]>>

\* A string variable with a child has been validated and the list is
\* empty.
C18_NonNestableSkipped ==
    /\ wire = <<FrontParent(<<"a">>, "string", <<FrontLeaf(<<"b">>, "string")>>)>>
    /\ errors = <<[raised |-> FALSE, errors |-> <<>>]>>

\* Under a root tag object or array[object] every such error is reported.
C18_ReportedUnderCanonicalRoot ==
    (FaultyGraphVariable /\ wire[1]["type"] \in {"object", "array[object]"}) =>
        errors[1].errors # <<>>

-----------------------------------------------------------------------------
(* SpecRead: a pool is written by add and set_nested_value and read by     *)
(* get, get_nested_value and format_with_nested_variables.                 *)

RECURSIVE after_sub(_, _, _)
\* The mapping after re.sub has called replacer for every match of the
\* template from position i on.
after_sub(t, i, vd) ==
    IF i > Len(t) THEN vd
    ELSE IF MatchAt(t, i).ok
    THEN after_sub(t, MatchAt(t, i).end + 1,
                   after_get_nested_value(vd, split(MatchAt(t, i).group1, "."),
                                          MatchAt(t, i).group2))
    ELSE after_sub(t, i + 1, vd)

\* Templates formatted against the pool: a placeholder that can resolve,
\* one that names a variable the pool never holds, and one that names a
\* scope the pool never holds next to plain text.
ReadTemplates ==
    {Placeholder(Join(<<NodeN, VarU, KeyA>>)),
     Placeholder(Join(<<NodeN, VarZ, KeyA>>)),
     <<"!">> \o Placeholder(Join(<<KeyA, KeyB>>)) \o Placeholder(Join(<<NodeN, VarU>>))}

\* parser.format_with_nested_variables(pool) on the pool as it is
FormatPool ==
    /\ \E t \in ReadTemplates :
        /\ last' = [op |-> "format", sel |-> <<>>, path |-> NoPath,
                    val |-> Scalar("str", format_with_nested_variables(
                                              t, variable_dictionary, heap)),
                    ret |-> TRUE, out |-> <<>>]
        /\ variable_dictionary' = after_sub(t, 1, variable_dictionary)
    /\ UNCHANGED <<heap, gen, held>>
    /\ UNCHANGED <<serVars, valVars, tplVars>>
    /\ UNCHANGED pipeVars

NextRead == Add \/ SetNested \/ Get \/ GetNested \/ FormatPool

SpecRead == InitPool /\ [][NextRead]_vars

\* C19: get, get_nested_value and the formatting of a template leave the
\* scope -> name -> value mapping as it was: no scope and no variable key
\* is added, also when the selector or the placeholder does not resolve.
C19_ReadsLeavePool ==
    [][last'.op \in {"get", "get_nested", "format"} =>
           variable_dictionary' = variable_dictionary]_vars

\* A template naming a scope the pool does not hold has been formatted on
\* a pool that holds only the system scope, and the text came back as it
\* was.
C19_Witness ==
    /\ last.op = "format"
    /\ last.val = Scalar("str", "{{#n.z.a#}}")
    /\ DOMAIN variable_dictionary = {SYSTEM_VARIABLE_NODE_ID}

-----------------------------------------------------------------------------
(* Further claims about validate_definition (SpecDef) *)

RECURSIVE PathsAtLevel(_, _, _, _)
\* The dot paths of the nodes of d found target - level levels below d, in
\* document order; d itself is at level and its path ends prefix.
PathsAtLevel(d, level, target, prefix) ==
    LET here == IF prefix = "" THEN Str(d.name) ELSE prefix \o "." \o Str(d.name)
        RECURSIVE from(_)
        from(i) == IF i > Len(d.children.items) THEN <<>>
                   ELSE PathsAtLevel(d.children.items[i], level + 1, target, here)
                        \o from(i + 1)
    IN IF level = target THEN <<here>> ELSE from(1)

\* C21: validate_definition emits MAX_DEPTH_EXCEEDED once for each node at
\* level MAX_NESTING_DEPTH + 1, at that node's path and in document order,
\* siblings included, and nothing for the nodes below that level.
C21_OneDepthErrorPerNode ==
    (def # <<>> /\ errors = <<validate_definition(def[1], 1, "")>>) =>
        LET paths == PathsAtLevel(def[1], 1, MAX_NESTING_DEPTH + 1, "")
        IN errors[1] =
             [i \in 1..Len(paths) |->
                 ValidationError(paths[i],
                                 "Maximum nesting depth of "
                                 \o ToString(MAX_NESTING_DEPTH) \o " exceeded",
                                 ERROR_MAX_DEPTH_EXCEEDED)]

\* Two siblings at level MAX_NESTING_DEPTH + 1, one of them with a child
\* of its own, have each been given their MAX_DEPTH_EXCEEDED and the child
\* none.
C21_Witness ==
    /\ def # <<>>
    /\ get_max_depth(def[1]) = MAX_NESTING_DEPTH + 2
    /\ Len(errors) = 1
    /\ Len(errors[1]) = 2
    /\ errors[1][1].path = "a.a.a.a.a.b"
    /\ errors[1][2].path = "a.a.a.a.a.a"
    /\ \A i \in 1..2 : errors[1][i].error_code = ERROR_MAX_DEPTH_EXCEEDED

-----------------------------------------------------------------------------
(* SpecDup: the fields of a constructed definition are assigned afterwards *)
(* (the model class is not frozen and does not validate assignments), so   *)
(* that trees the constructor refuses reach the validator.                 *)

\* Deepest tree built here, in levels.
MaxDupDepth == 7

\* The names that occur more than once in a list of definitions.
Repeated(ds) ==
    {ds[j].name : j \in {j \in 1..Len(ds) : \E i \in 1..(j - 1) : ds[i].name = ds[j].name}}

RECURSIVE Faulty(_)
\* Some node of d has children under a type that is not nestable or
\* children of one name.
Faulty(d) ==
    \/ HasChildren(d) /\ ~is_nestable(d.type)
    \/ Repeated(d.children.items) # {}
    \/ \E i \in 1..Len(d.children.items) : Faulty(d.children.items[i])

InitDup ==
    /\ \E d \in DefLeaves : def = <<d>>
    /\ wire = <<>> /\ back = <<>> /\ rejected = FALSE
    /\ ValIdle
    /\ PoolIdle
    /\ TplIdle
    /\ PipeIdle

\* NestedVariableDefinition(name="a", type=OBJECT, children=[...]) around
\* the tree built so far, alone or after a sibling b.
WrapDup ==
    /\ get_max_depth(def[1]) < MaxDupDepth
    /\ \E withSibling \in BOOLEAN :
          LET sibling == NewDefinition(<<"b">>, "NUMBER", TRUE, "", "None", NoChildren).def
              children == IF withSibling THEN <<sibling, def[1]>> ELSE <<def[1]>>
              made == NewDefinition(<<"a">>, "OBJECT", FALSE, "", "None", ChildList(children))
          IN made.ok /\ def' = <<made.def>>
    /\ errors' = <<>>
    /\ UNCHANGED <<wire, back, rejected, vdef, value>>
    /\ UNCHANGED <<poolVars, tplVars>>
    /\ UNCHANGED pipeVars

\* definition.children = [...]: the children are listed twice, so that
\* every name among them repeats.
AssignChildren ==
    /\ HasChildren(def[1])
    /\ \A i \in 1..Len(def[1].children.items) : ~Faulty(def[1].children.items[i])
    /\ Repeated(def[1].children.items) = {}
    /\ def' = <<[def[1] EXCEPT !.children =
                    ChildList(def[1].children.items \o def[1].children.items)]>>
    /\ errors' = <<>>
    /\ UNCHANGED <<wire, back, rejected, vdef, value>>
    /\ UNCHANGED <<poolVars, tplVars>>
    /\ UNCHANGED pipeVars

\* definition.type = NestedVariableType.STRING
AssignType ==
    /\ HasChildren(def[1])
    /\ \A i \in 1..Len(def[1].children.items) : ~Faulty(def[1].children.items[i])
    /\ def[1].type # "STRING"
    /\ def' = <<[def[1] EXCEPT !.type = "STRING"]>>
    /\ errors' = <<>>
    /\ UNCHANGED <<wire, back, rejected, vdef, value>>
    /\ UNCHANGED <<poolVars, tplVars>>
    /\ UNCHANGED pipeVars

\* The lists of roots given to validate_definitions around a definition.
RootLists(d) ==
    LET other == NewDefinition(<<"b">>, "STRING", FALSE, "", "None", NoChildren).def
    IN {<<d>>, <<d, other>>, <<d, d>>, <<d, other, other, d>>}

\* NestedVariableValidator.validate_definition(def)
ValidateDup ==
    /\ errors' = <<validate_definition(def[1], 1, "")>>
    /\ UNCHANGED <<vdef, value>>
    /\ UNCHANGED <<serVars, poolVars, tplVars>>
    /\ UNCHANGED pipeVars

\* NestedVariableValidator.validate_definitions(roots)
ValidateRoots ==
    /\ \E roots \in RootLists(def[1]) : errors' = <<validate_definitions(roots)>>
    /\ UNCHANGED <<vdef, value>>
    /\ UNCHANGED <<serVars, poolVars, tplVars>>
    /\ UNCHANGED pipeVars

NextDup == WrapDup \/ AssignChildren \/ AssignType \/ ValidateDup \/ ValidateRoots

SpecDup == InitDup /\ [][NextDup]_vars

RECURSIVE ParentsOf(_, _, _, _)
\* The nodes of d that have children, each with its level, its dot path
\* and whether validation gets as far as its children: it and its
\* ancestors are within the depth limit and of a nestable type.
ParentsOf(d, level, prefix, reached) ==
    LET here == IF prefix = "" THEN Str(d.name) ELSE prefix \o "." \o Str(d.name)
        open == reached /\ level <= MAX_NESTING_DEPTH /\ is_nestable(d.type)
    IN (IF HasChildren(d)
        THEN {[node |-> d, level |-> level, path |-> here, reached |-> open]}
        ELSE {})
       \cup UNION {ParentsOf(d.children.items[i], level + 1, here, open) :
                      i \in 1..Len(d.children.items)}

\* The DUPLICATE_CHILD_NAME errors of a list that carry the path at.
DuplicateErrorsAt(es, at) ==
    LET Hit(e) == e.error_code = ERROR_DUPLICATE_CHILD_NAME /\ e.path = at
    IN SelectSeq(es, Hit)

\* The list es holds for the parent p one DUPLICATE_CHILD_NAME naming every
\* repeated name, and the errors of every child of p.
DuplicatesReported(es, p) ==
    /\ Len(DuplicateErrorsAt(es, p.path)) = 1
    /\ DuplicateErrorsAt(es, p.path)[1].message =
         "Duplicate child names: " \o SetRepr(Repeated(p.node.children.items))
    /\ \A i \in 1..Len(p.node.children.items) :
          Range(validate_definition(p.node.children.items[i], p.level + 1, p.path))
              \subseteq Range(es)

\* The list es holds for the roots one DUPLICATE_CHILD_NAME at the empty
\* path naming every repeated name, and the errors of every root.
RootDuplicatesReported(es, roots) ==
    /\ Len(DuplicateErrorsAt(es, "")) = 1
    /\ DuplicateErrorsAt(es, "")[1].message =
         "Duplicate variable names at root level: " \o SetRepr(Repeated(roots))
    /\ \A i \in 1..Len(roots) :
          Range(validate_definition(roots[i], 1, "")) \subseteq Range(es)

\* C22 as stated: whenever names repeat among the children of a parent,
\* the list holds exactly one DUPLICATE_CHILD_NAME for that parent naming
\* every repeated name, and the errors of every child; likewise for the
\* roots given to validate_definitions.
C22_OneDuplicateErrorPerParent ==
    /\ errors = <<validate_definition(def[1], 1, "")>> =>
          \A p \in ParentsOf(def[1], 1, "", TRUE) :
              Repeated(p.node.children.items) # {} => DuplicatesReported(errors[1], p)
    /\ \A roots \in RootLists(def[1]) :
          (errors = <<validate_definitions(roots)>> /\ Repeated(roots) # {}) =>
              RootDuplicatesReported(errors[1], roots)

\* C22: the same for every parent whose children validation gets to, that
\* is a parent of a nestable type within the depth limit whose ancestors
\* are likewise; a parent of another type gets INVALID_CHILDREN_TYPE and a
\* parent past the limit MAX_DEPTH_EXCEEDED, and no DUPLICATE_CHILD_NAME.
C22_OneDuplicateErrorPerReachedParent ==
    /\ errors = <<validate_definition(def[1], 1, "")>> =>
          \A p \in ParentsOf(def[1], 1, "", TRUE) :
              Repeated(p.node.children.items) # {} =>
                  IF p.reached THEN DuplicatesReported(errors[1], p)
                  ELSE DuplicateErrorsAt(errors[1], p.path) = <<>>
    /\ \A roots \in RootLists(def[1]) :
          (errors = <<validate_definitions(roots)>> /\ Repeated(roots) # {}) =>
              RootDuplicatesReported(errors[1], roots)

\* A parent at level 2 has two children a and two children b; it got one
\* DUPLICATE_CHILD_NAME, and the nodes past the depth limit inside the
\* repeated children each got their MAX_DEPTH_EXCEEDED.
C22_Witness ==
    /\ errors = <<validate_definition(def[1], 1, "")>>
    /\ \E p \in ParentsOf(def[1], 1, "", TRUE) :
          /\ p.level = 2 /\ p.reached
          /\ Cardinality(Repeated(p.node.children.items)) = 2
          /\ Len(DuplicateErrorsAt(errors[1], p.path)) = 1
    /\ \E i \in 1..Len(errors[1]) : errors[1][i].error_code = ERROR_MAX_DEPTH_EXCEEDED

\* Children of one name sit under a parent whose type was set to string:
\* the list holds INVALID_CHILDREN_TYPE and no DUPLICATE_CHILD_NAME.
C22_MaskedByType ==
    /\ errors = <<validate_definition(def[1], 1, "")>>
    /\ def[1].type = "STRING"
    /\ Repeated(def[1].children.items) # {}
    /\ Len(errors[1]) = 1
    /\ errors[1][1].error_code = ERROR_INVALID_CHILDREN_TYPE

-----------------------------------------------------------------------------
(* The paths of validate_value (SpecVal) *)

RECURSIVE FieldPaths(_, _, _)
\* The paths of the fields that the value v holds for the definition d
\* below prefix: the chain of names joined by dots, with [i] after the name
\* of an array field for its element i, counted from 0.
FieldPaths(d, v, prefix) ==
    LET here == IF prefix = "" THEN Str(d.name) ELSE prefix \o "." \o Str(d.name)
        kids == d.children.items
        Under(holder, base) ==
            UNION {FieldPaths(kids[k], DictGet(holder, kids[k].name), base) :
                      k \in 1..Len(kids)}
    IN {here}
       \cup (IF isinstance(v, "list") /\ is_array(d.type)
             THEN {IndexedPath(here, i - 1) : i \in 1..Len(v.items)}
             ELSE {})
       \cup (IF d.type = "OBJECT" /\ isinstance(v, "dict") THEN Under(v, here) ELSE {})
       \cup (IF d.type = "ARRAY_OBJECT" /\ isinstance(v, "list")
             THEN UNION {Under(v.items[i], IndexedPath(here, i - 1)) :
                            i \in {i \in 1..Len(v.items) : isinstance(v.items[i], "dict")}}
             ELSE {})

\* u = object{a: object{b: string(required)}} against {"a": {}}.
ContactCase ==
    /\ vdef[1] \in {Parent(<<"u">>, "OBJECT", TRUE,
                           <<Parent(<<"a">>, "OBJECT", r,
                                    <<Leaf(<<"b">>, "STRING", TRUE)>>)>>) : r \in BOOLEAN}
    /\ value[1] = DictOf([k \in {<<"a">>} |-> DictOf(NoFields)])

\* u = array[object]{a: string(required)} against [{"a": "x"}, {}].
ItemsCase ==
    /\ vdef[1] = Parent(<<"u">>, "ARRAY_OBJECT", TRUE, <<Leaf(<<"a">>, "STRING", TRUE)>>)
    /\ value[1] = ListOf(<<DictOf([k \in {<<"a">>} |-> Scalar("str", "x")]),
                           DictOf(NoFields)>>)

\* C23: every error path is one of the field paths of the value: the names
\* from the root to the field joined by dots, no leading dot, [i] after the
\* name of an array field for element i; the required b missing under u.a
\* gives the single error at u.a.b, the required a missing in element 1 of
\* u the single error at u[1].a.
C23_ErrorPaths ==
    errors # <<>> =>
        /\ \A e \in Range(errors[1]) : e.path \in FieldPaths(vdef[1], value[1], "")
        /\ ContactCase =>
              errors[1] = <<ValidationError("u.a.b", "Required field is missing",
                                            ERROR_REQUIRED_FIELD_MISSING)>>
        /\ ItemsCase =>
              errors[1] = <<ValidationError("u[1].a", "Required field is missing",
                                            ERROR_REQUIRED_FIELD_MISSING)>>

\* The list [{"a": "x"}, {}] has been validated and the error sits at u[1].a.
C23_Witness ==
    /\ errors # <<>>
    /\ ItemsCase
    /\ Len(errors[1]) = 1
    /\ errors[1][1].path = "u[1].a"

\* {"a": {}} has been validated and the error sits at u.a.b.
C23_WitnessNested ==
    /\ errors # <<>>
    /\ ContactCase
    /\ Len(errors[1]) = 1
    /\ errors[1][1].path = "u.a.b"

-----------------------------------------------------------------------------
(* The file types in validate_value (SpecVal) *)

\* C30: a value other than None given to a field of type file passes
\* whatever its kind; given to a field of type array[file] it passes when
\* it is a list, whatever its elements, and otherwise gets the single
\* TYPE_MISMATCH of the field.
C30_FileTypesUnchecked ==
    (errors # <<>> /\ value[1] # None) =>
        /\ vdef[1].type = "FILE" => errors[1] = <<>>
        /\ vdef[1].type = "ARRAY_FILE" =>
              IF isinstance(value[1], "list") THEN errors[1] = <<>>
              ELSE /\ Len(errors[1]) = 1
                   /\ errors[1][1].error_code = ERROR_TYPE_MISMATCH
                   /\ errors[1][1].path = Str(vdef[1].name)

\* A list holding a string and an integer passed for an array[file] field.
C30_Witness ==
    /\ errors = <<<<>>>>
    /\ vdef[1].type = "ARRAY_FILE"
    /\ isinstance(value[1], "list")
    /\ Len(value[1].items) = 2
    /\ value[1].items[1].t = "str"
    /\ value[1].items[2].t = "int"

\* A string passed for a field of type file.
C30_WitnessFile ==
    /\ errors = <<<<>>>>
    /\ vdef[1].type = "FILE"
    /\ value[1].t = "str"

-----------------------------------------------------------------------------
(* validate_definition on constructed trees (SpecDef) *)

\* C28: for a tree built through the constructor validate_definition
\* returns nothing but MAX_DEPTH_EXCEEDED errors, at least one of them
\* exactly when get_max_depth() exceeds MAX_NESTING_DEPTH, which is exactly
\* when validate_depth() returns a message.
C28_ConstructedTreesOnlyDepthErrors ==
    (def # <<>> /\ errors = <<validate_definition(def[1], 1, "")>>) =>
        /\ \A i \in 1..Len(errors[1]) :
              errors[1][i].error_code = ERROR_MAX_DEPTH_EXCEEDED
        /\ errors[1] # <<>> <=> get_max_depth(def[1]) > MAX_NESTING_DEPTH
        /\ errors[1] # <<>> <=> validate_depth(def[1], MAX_NESTING_DEPTH) # <<>>
        /\ validate_depth(def[1], MAX_NESTING_DEPTH) # <<>> =>
              validate_depth(def[1], MAX_NESTING_DEPTH) =
                  <<"Maximum nesting depth of 5 exceeded at 'a' (depth: "
                    \o ToString(get_max_depth(def[1])) \o ")">>

\* A constructed tree of MAX_NESTING_DEPTH + 1 levels with a sibling at
\* some level has been validated: validate_definition and validate_depth
\* both report it.
C28_Witness ==
    /\ def # <<>>
    /\ get_max_depth(def[1]) = MAX_NESTING_DEPTH + 1
    /\ Len(def[1].children.items) = 2
    /\ errors = <<validate_definition(def[1], 1, "")>>
    /\ errors[1] # <<>>
    /\ validate_depth(def[1], MAX_NESTING_DEPTH) # <<>>

\* A constructed tree of exactly MAX_NESTING_DEPTH levels has been
\* validated: neither function reports anything.
C28_WitnessAtLimit ==
    /\ def # <<>>
    /\ get_max_depth(def[1]) = MAX_NESTING_DEPTH
    /\ errors = <<<<>>>>
    /\ validate_depth(def[1], MAX_NESTING_DEPTH) = <<>>

-----------------------------------------------------------------------------
(* validate_serialized_definition and exceptions (SpecWire) *)

RECURSIVE HasNonListChildren(_)
\* Somewhere on the walk of validate_serialized_definition, under a
\* recognised nestable type, children is truthy and not a list.
HasNonListChildren(m) ==
    /\ Truthy(m, "type") /\ TypeFromValue(m["type"]).ok
    /\ is_nestable(TypeFromValue(m["type"]).type)
    /\ Truthy(m, "children")
    /\ \/ m["children"].kind # "list"
       \/ \E i \in 1..Len(m["children"].items) : HasNonListChildren(m["children"].items[i])

\* C25: validate_serialized_definition returns a list for every map and
\* never raises.
C25_NeverRaises ==
    errors # <<>> => ~errors[1].raised

\* The call was made on {"name": "a", "type": "object", "children": {"b":
\* ...}} and raised.
C25_RaisedOnDictChildren ==
    /\ errors # <<>>
    /\ errors[1].raised
    /\ wire[1] = RawParent(<<"a">>, "object",
                           WireOther("dict", <<RawLeaf(<<"b">>, "string")>>))

\* The call raises exactly for the maps that hold, under a nestable type on
\* the walk, a truthy children value that is not a list; a missing or
\* unrecognised type and an empty children value of any kind give a list.
C25_RaisesOnlyOnNonListChildren ==
    errors # <<>> => (errors[1].raised <=> HasNonListChildren(wire[1]))

-----------------------------------------------------------------------------
(* SpecFrame: a pool receives several entries and is then updated by dot   *)
(* path.                                                                   *)

\* Number of successful writes explored.
MaxFrameGen == 3

FrameAddInputs ==
    {<<<<NodeN, VarU>>, Flat>>, <<<<NodeN, VarU>>, Nested>>,
     <<<<NodeN, VarS>>, Nested>>}

FrameSetInputs ==
    {<<NodeN, VarU>>, <<NodeN, VarS>>, <<NodeN, VarZ>>}
    \X {<<>>, Join(<<KeyA, KeyB>>), Join(<<KeyB, KeyA>>), Join(<<KeyB, KeyA, KeyB>>)}
    \X {DictOf(KeyB :> Scalar("str", "w"))}

\* pool.add(selector, value)
AddEntry ==
    /\ gen < MaxFrameGen
    /\ \E inp \in FrameAddInputs :
        LET id == <<2 * gen + 2, <<>>>>
            r == add(variable_dictionary, inp[1], build_segment(inp[2], id))
        IN /\ variable_dictionary' = r.vd
           /\ heap' = IF r.ok THEN Objects(inp[2], 2 * gen + 2) @@ heap ELSE heap
           /\ gen' = IF r.ok THEN gen + 1 ELSE gen
           /\ last' = [op |-> "add", sel |-> inp[1], path |-> NoPath,
                       val |-> inp[2], ret |-> r.ok, out |-> <<>>]
    /\ UNCHANGED held
    /\ UNCHANGED <<serVars, valVars, tplVars>>
    /\ UNCHANGED pipeVars

\* pool.set_nested_value(selector, nested_path, value)
SetNestedEntry ==
    /\ gen < MaxFrameGen
    /\ \E inp \in FrameSetInputs :
        LET r == set_nested_value(variable_dictionary, heap, gen, inp[1], inp[2], inp[3])
        IN /\ variable_dictionary' = r.vd
           /\ heap' = r.heap
           /\ gen' = IF r.ret THEN gen + 1 ELSE gen
           /\ last' = [op |-> "set_nested", sel |-> inp[1],
                       path |-> PathStr(inp[2]), val |-> inp[3],
                       ret |-> r.ret, out |-> <<>>]
    /\ UNCHANGED held
    /\ UNCHANGED <<serVars, valVars, tplVars>>
    /\ UNCHANGED pipeVars

NextFrame == AddEntry \/ SetNestedEntry

SpecFrame == InitPool /\ [][NextFrame]_vars

\* What pool.get(selector) reads: <<>> for None, else the value in full.
ReadAt(vd, h, selector) ==
    IF get(vd, h, selector) = <<>> THEN <<>>
    ELSE <<DeepValue(h, get(vd, h, selector)[1])>>

\* The keys in use, and the key paths of one to three of them.
FrameKeys == {KeyA, KeyB, <<"a", "b">>, <<>>}

KeyPaths == UNION {[1..n -> FrameKeys] : n \in 1..3}

\* p is an initial part of q.
IsPrefix(p, q) == Len(p) <= Len(q) /\ SubSeq(q, 1, Len(p)) = p

\* The entries of the pool: the selectors of two segments that are stored.
Entries(vd) == {<<scope, name>> : scope \in DOMAIN vd, name \in {VarU, VarS, VarZ}}

\* C29: a successful set_nested_value(sel, path, v) leaves every other
\* entry reading as before, adds and removes no entry, and leaves every
\* key path inside the entry sel reading as before unless it lies on the
\* path (it leads to the place written or goes through it); the place
\* itself reads v.
C29_SetNestedFrame ==
    [][(last'.op = "set_nested" /\ last'.ret) =>
          LET parts == split(last'.path.s, ".")
          IN /\ \A e \in Entries(variable_dictionary) \cup Entries(variable_dictionary') :
                   e # last'.sel =>
                       ReadAt(variable_dictionary', heap', e)
                           = ReadAt(variable_dictionary, heap, e)
             /\ \A p \in KeyPaths :
                   (~IsPrefix(p, parts) /\ ~IsPrefix(parts, p)) =>
                       ReadAt(variable_dictionary', heap', last'.sel \o p)
                           = ReadAt(variable_dictionary, heap, last'.sel \o p)
             /\ ReadAt(variable_dictionary', heap', last'.sel \o parts) = <<last'.val>>
      ]_vars

\* b.a has been set in the entry u = {"a": "x", "b": {}} while the entry s
\* is stored next to it: the key a of u, off the path, still reads "x".
C29_Witness ==
    /\ last.op = "set_nested" /\ last.ret
    /\ last.sel = <<NodeN, VarU>>
    /\ last.path.s = Join(<<KeyB, KeyA>>)
    /\ ReadAt(variable_dictionary, heap, <<NodeN, VarS>>) = <<Nested>>
    /\ ReadAt(variable_dictionary, heap, <<NodeN, VarU, KeyA>>) = <<Scalar("str", "x")>>
    /\ ReadAt(variable_dictionary, heap, <<NodeN, VarU, KeyB, KeyA>>) = <<last.val>>

-----------------------------------------------------------------------------
(* Response enhancement: EnhancementErrorHandler (error_handler.py) and    *)
(* PostProcessorRegistry.execute_pipeline (registry.py).                   *)

\* The number of errors at which _should_disable_processor answers True.
DisableThreshold == 5

\* get_error_count(processor_name)
get_error_count(counts, processor_name) ==
    IF processor_name \in DOMAIN counts THEN counts[processor_name] ELSE 0

\* A circuit breaker that opens one error later.
should_disable_processor_late(counts, processor_name) ==
    get_error_count(counts, processor_name) > DisableThreshold

\* _should_disable_processor(processor_name)
should_disable_processor(counts, processor_name) ==
    get_error_count(counts, processor_name) >= DisableThreshold

\* is_processor_disabled(processor_name)
is_processor_disabled(disabled, processor_name) == processor_name \in disabled

\* handle_processor_error answering with an empty response.
handle_processor_error_empty(counts, disabled, processor_name, original_response) ==
    LET counted == (processor_name :> get_error_count(counts, processor_name) + 1) @@ counts
    IN [error_counts |-> counted,
        disabled_processors |->
            IF should_disable_processor(counted, processor_name)
            THEN disabled \cup {processor_name} ELSE disabled,
        response |-> <<>>]

\* handle_processor_error(error, processor_name, context, original_response):
\* the error is counted, the processor is disabled when its count reaches
\* the threshold, and original_response is returned.
handle_processor_error(counts, disabled, processor_name, original_response) ==
    LET counted == (processor_name :> get_error_count(counts, processor_name) + 1) @@ counts
    IN [error_counts |-> counted,
        disabled_processors |->
            IF should_disable_processor(counted, processor_name)
            THEN disabled \cup {processor_name} ELSE disabled,
        response |-> original_response]

\* enable_processor(processor_name)
enable_processor(counts, disabled, processor_name) ==
    [error_counts |-> (processor_name :> 0) @@ counts,
     disabled_processors |-> disabled \ {processor_name}]

\* reset_error_counts()
reset_error_counts ==
    [error_counts |-> [n \in {} |-> 0], disabled_processors |-> {}]

-----------------------------------------------------------------------------
(* SpecPipe: pipelines are executed one after the other, one processor per  *)
(* step, while processors are enabled again and the counts are reset.       *)

\* registry._processors: p and q are registered, x is not.
Registered == {"p", "q"}

ProcessorNames == {"p", "q", "x"}

\* The response given to execute_pipeline; a processor that processes a
\* response appends its name to it.
InitialResponse == <<"r">>

\* The lists of names given to execute_pipeline.
Pipelines ==
    {<<>>, <<"p">>, <<"p", "q">>, <<"p", "p">>, <<"q", "p", "x", "q">>}

\* What a processor may do when its turn comes: p may decline, raise in
\* can_process, raise in process or process; q declines or processes.
Outcomes(name) ==
    IF name = "p" THEN {"declined", "raised_can", "raised_process", "processed"}
    ELSE {"declined", "processed"}

Raised(did) == did \in {"raised_can", "raised_process"}

\* The number of executions name raised in since it was last enabled.
RaisedIn(name) == IF name \in DOMAIN raised_in THEN raised_in[name] ELSE 0

InitPipe == SerIdle /\ ValIdle /\ PoolIdle /\ TplIdle /\ PipeIdle

\* execute_pipeline(processors, response, context) is called: an empty list
\* returns the response at once.
StartPipeline ==
    /\ frame = <<>>
    /\ \E processors \in Pipelines :
          IF processors = <<>>
          THEN frame' = <<>> /\ returned' = <<InitialResponse>>
          ELSE /\ frame' = <<[processors |-> processors, position |-> 1,
                              current_response |-> InitialResponse]>>
               /\ returned' = <<>>
    /\ calls' = <<>>
    /\ UNCHANGED <<error_counts, disabled_processors, raised_in, reenabled>>
    /\ UNCHANGED <<serVars, valVars, poolVars, tplVars>>

\* One turn of the loop over processors: the disabled and the unregistered
\* are skipped, can_process is asked, process is called, and an exception
\* of either is given to handle_processor_error.
StepPipeline ==
    /\ frame # <<>>
    /\ frame[1].position <= Len(frame[1].processors)
    /\ LET f == frame[1]
           name == f.processors[f.position]
           Entry(did, output) == [at |-> f.position, name |-> name, did |-> did,
                                  input |-> f.current_response, output |-> output]
           Next(output) == <<[f EXCEPT !.position = f.position + 1,
                                       !.current_response = output]>>
       IN IF is_processor_disabled(disabled_processors, name)
          THEN /\ calls' = Append(calls, Entry("disabled", f.current_response))
               /\ frame' = Next(f.current_response)
               /\ UNCHANGED <<error_counts, disabled_processors, raised_in>>
          ELSE IF name \notin Registered
          THEN /\ calls' = Append(calls, Entry("missing", f.current_response))
               /\ frame' = Next(f.current_response)
               /\ UNCHANGED <<error_counts, disabled_processors, raised_in>>
          ELSE \E did \in Outcomes(name) :
                 IF Raised(did)
                 THEN LET handled == handle_processor_error(error_counts,
                                         disabled_processors, name, f.current_response)
                          before == \E k \in 1..Len(calls) :
                                        calls[k].name = name /\ Raised(calls[k].did)
                      IN /\ calls' = Append(calls, Entry(did, handled.response))
                         /\ frame' = Next(handled.response)
                         /\ error_counts' = handled.error_counts
                         /\ disabled_processors' = handled.disabled_processors
                         /\ raised_in' = IF before THEN raised_in
                                         ELSE (name :> RaisedIn(name) + 1) @@ raised_in
                 ELSE LET output == IF did = "processed"
                                    THEN Append(f.current_response, name)
                                    ELSE f.current_response
                      IN /\ calls' = Append(calls, Entry(did, output))
                         /\ frame' = Next(output)
                         /\ UNCHANGED <<error_counts, disabled_processors, raised_in>>
    /\ UNCHANGED <<returned, reenabled>>
    /\ UNCHANGED <<serVars, valVars, poolVars, tplVars>>

\* The loop is over: return current_response.
ReturnPipeline ==
    /\ frame # <<>>
    /\ frame[1].position > Len(frame[1].processors)
    /\ returned' = <<frame[1].current_response>>
    /\ frame' = <<>>
    /\ UNCHANGED <<error_counts, disabled_processors, calls, raised_in, reenabled>>
    /\ UNCHANGED <<serVars, valVars, poolVars, tplVars>>

\* error_handler.enable_processor(name)
EnableProcessor(name) ==
    /\ LET r == enable_processor(error_counts, disabled_processors, name)
       IN /\ error_counts' = r.error_counts
          /\ disabled_processors' = r.disabled_processors
    /\ raised_in' = (name :> 0) @@ raised_in
    /\ reenabled' = reenabled \cup ({name} \cap disabled_processors)
    /\ UNCHANGED <<frame, returned, calls>>
    /\ UNCHANGED <<serVars, valVars, poolVars, tplVars>>

\* error_handler.reset_error_counts()
ResetErrorCounts ==
    /\ error_counts' = reset_error_counts.error_counts
    /\ disabled_processors' = reset_error_counts.disabled_processors
    /\ raised_in' = [n \in {} |-> 0]
    /\ reenabled' = reenabled \cup disabled_processors
    /\ UNCHANGED <<frame, returned, calls>>
    /\ UNCHANGED <<serVars, valVars, poolVars, tplVars>>

EnableAny == \E name \in Registered : EnableProcessor(name)

NextPipe == StartPipeline \/ StepPipeline \/ ReturnPipeline \/ EnableAny \/ ResetErrorCounts

SpecPipe == InitPipe /\ [][NextPipe]_vars

\* The loop of execute_pipeline runs on: every turn and the return are taken.
SpecPipeLive == SpecPipe /\ WF_vars(StepPipeline) /\ WF_vars(ReturnPipeline)

-----------------------------------------------------------------------------
(* Claims about execute_pipeline *)

\* The response the turn k of the current execution was given.
InputOf(k) == IF k = 1 THEN InitialResponse ELSE calls[k - 1].output

\* The turns taken so far are the names of the list in order, each given
\* the output of the turn before; a processor that processed appended its
\* name, and every other turn, a raising one included, passed its input on.
TurnsInOrder ==
    /\ frame # <<>> =>
          /\ Len(calls) = frame[1].position - 1
          /\ \A k \in 1..Len(calls) : calls[k].name = frame[1].processors[k]
          /\ frame[1].current_response = InputOf(Len(calls) + 1)
    /\ \A k \in 1..Len(calls) :
          /\ calls[k].at = k
          /\ calls[k].input = InputOf(k)
          /\ calls[k].output = IF calls[k].did = "processed"
                               THEN Append(calls[k].input, calls[k].name)
                               ELSE calls[k].input

\* The return follows the turn of the last name and gives the output of
\* that turn.
ReturnsAfterLastTurn ==
    (frame # <<>> /\ returned' # <<>>) =>
        /\ Len(calls) = Len(frame[1].processors)
        /\ returned' = <<InputOf(Len(calls) + 1)>>

\* C26: execute_pipeline takes the names in list order, each processor
\* receiving the output of the one before; a processor that raises leaves
\* the response as it was, the later names still get their turn, and the
\* call returns.
C26_PipelineRunsOn ==
    /\ []TurnsInOrder
    /\ [][ReturnsAfterLastTurn]_vars
    /\ (frame # <<>>) ~> (returned # <<>>)

\* q processed, p raised in process, x was not registered, and q processed
\* again what it had produced before p; that is what was returned.
C26_Witness ==
    /\ returned = <<<<"r", "q", "q">>>>
    /\ Len(calls) = 4
    /\ calls[2].name = "p" /\ calls[2].did = "raised_process"
    /\ calls[4].name = "q" /\ calls[4].did = "processed"
    /\ calls[4].input = <<"r", "q">>

C27_WitnessSkipped ==
    /\ RaisedIn("p") = 5
    /\ "p" \in disabled_processors
    /\ Len(calls) = 2
    /\ calls[1].name = "p" /\ calls[1].did = "disabled"
    /\ calls[2].did = "processed"

-----------------------------------------------------------------------------
(* SpecDepth: a definition and a value that fits it grow level by level,   *)
(* and the two validations are applied.                                    *)

\* Deepest definition built here, in levels.
MaxDepthLevels == 7

\* The larger of two numbers.
Max2(a, b) == IF a >= b THEN a ELSE b

RECURSIVE MaxOver(_, _, _)
\* The largest of F(1), ..., F(n) and floor.
MaxOver(F(_), n, floor) ==
    IF n = 0 THEN floor ELSE Max2(F(n), MaxOver(F, n - 1, floor))

RECURSIVE validate_value_levels(_, _, _)
\* The deepest level of the calls validate_value(val, definition) makes to
\* itself, its own call being at level: it returns at None and at a type
\* mismatch and otherwise calls itself for every child, on the dict or on
\* every dict element of the list.
validate_value_levels(val, definition, level) ==
    IF val = None THEN level
    ELSE IF validate_type(val, definition.type, "") # <<>> THEN level
    ELSE
      LET kids == definition.children.items
          InDict(holder) ==
              LET F(k) == validate_value_levels(DictGet(holder, kids[k].name), kids[k],
                                                level + 1)
              IN MaxOver(F, Len(kids), level)
          InItems ==
              LET G(i) == IF isinstance(val.items[i], "dict") THEN InDict(val.items[i])
                          ELSE level
              IN MaxOver(G, Len(val.items), level)
      IN IF HasChildren(definition) /\ isinstance(val, "dict") THEN InDict(val)
         ELSE IF definition.type = "ARRAY_OBJECT" /\ HasChildren(definition)
                 /\ isinstance(val, "list")
         THEN InItems
         ELSE level

RECURSIVE validate_definition_levels(_, _)
\* The deepest current_depth of the calls validate_definition makes to
\* itself: it returns past the limit and at children under a type that is
\* not nestable, and otherwise calls itself for every child.
validate_definition_levels(definition, current_depth) ==
    IF current_depth > MAX_NESTING_DEPTH THEN current_depth
    ELSE IF ~HasChildren(definition) THEN current_depth
    ELSE IF ~is_nestable(definition.type) THEN current_depth
    ELSE LET F(k) == validate_definition_levels(definition.children.items[k],
                                                current_depth + 1)
         IN MaxOver(F, Len(definition.children.items), current_depth)

InitDepth ==
    /\ \E t \in {"STRING", "INTEGER"} :
       \E v \in {None, Scalar("str", "x")} :
          /\ vdef = <<Leaf(<<"a">>, t, TRUE)>>
          /\ value = <<v>>
    /\ errors = <<>>
    /\ SerIdle
    /\ PoolIdle
    /\ TplIdle
    /\ PipeIdle

\* The definition becomes the child of a new object or array[object], and
\* the value the entry a of a new dict, alone or as the element of a list.
Deepen ==
    /\ get_max_depth(vdef[1]) < MaxDepthLevels
    /\ \E t \in {"OBJECT", "ARRAY_OBJECT"} :
          /\ vdef' = <<Parent(<<"a">>, t, TRUE, <<vdef[1]>>)>>
          /\ value' = <<IF t = "OBJECT"
                        THEN DictOf([k \in {<<"a">>} |-> value[1]])
                        ELSE ListOf(<<DictOf([k \in {<<"a">>} |-> value[1]])>>)>>
    /\ errors' = <<>>
    /\ UNCHANGED <<serVars, poolVars, tplVars>>
    /\ UNCHANGED pipeVars

\* NestedVariableValidator.validate_value(value, definition)
ValidateDeepValue ==
    /\ errors' = <<validate_value(value[1], vdef[1], "")>>
    /\ UNCHANGED <<vdef, value>>
    /\ UNCHANGED <<serVars, poolVars, tplVars>>
    /\ UNCHANGED pipeVars

\* NestedVariableValidator.validate_definition(definition)
ValidateDeepDefinition ==
    /\ errors' = <<validate_definition(vdef[1], 1, "")>>
    /\ UNCHANGED <<vdef, value>>
    /\ UNCHANGED <<serVars, poolVars, tplVars>>
    /\ UNCHANGED pipeVars

NextDepth == Deepen \/ ValidateDeepValue \/ ValidateDeepDefinition

SpecDepth == InitDepth /\ [][NextDepth]_vars

\* C24: whatever the definition and the value, neither validate_definition
\* nor validate_value calls itself deeper than MAX_NESTING_DEPTH levels
\* plus the one level at which the depth error is reported.
C24_RecursionBounded ==
    errors # <<>> =>
        /\ validate_definition_levels(vdef[1], 1) <= MAX_NESTING_DEPTH + 1
        /\ validate_value_levels(value[1], vdef[1], 1) <= MAX_NESTING_DEPTH + 1

\* A definition of MAX_NESTING_DEPTH + 2 levels and a value that fills it
\* have been validated by validate_value, which reached the last level and
\* reported the required leaf missing there.
C24_ValueRecursionPastLimit ==
    /\ errors # <<>>
    /\ get_max_depth(vdef[1]) = MAX_NESTING_DEPTH + 2
    /\ validate_value_levels(value[1], vdef[1], 1) = MAX_NESTING_DEPTH + 2
    /\ errors[1] = validate_value(value[1], vdef[1], "")
    /\ Len(errors[1]) = 1
    /\ errors[1][1].error_code = ERROR_REQUIRED_FIELD_MISSING

\* validate_definition stops one level past the limit; validate_value goes
\* as deep as the definition and the value go together.
C24_OnlyDefinitionBounded ==
    errors # <<>> =>
        /\ validate_definition_levels(vdef[1], 1)
              = IF get_max_depth(vdef[1]) > MAX_NESTING_DEPTH
                THEN MAX_NESTING_DEPTH + 1 ELSE get_max_depth(vdef[1])
        /\ validate_value_levels(value[1], vdef[1], 1) = get_max_depth(vdef[1])

====
